---- MODULE Spec2Model ----
(***************************************************************************)
(* Verification model of the hamilton-tool core: the single-position       *)
(* backtester (utils/backtesting.ts) and the walk-forward optimizer        *)
(* (utils/optimization.ts).                                                *)
(*                                                                         *)
(* Arithmetic.  The program computes with IEEE doubles.  Money amounts are *)
(* only ever multiplied (by a return factor or by the cost factor          *)
(* 1 - transactionCost/100), so an amount is kept exactly as a monomial    *)
(*      initialCapital * F^k * n/d      with F = 1 - transactionCost/100   *)
(* written [k |-> k, n |-> n, d |-> d]; amounts are compared exactly with  *)
(* arbitrary-precision naturals (sequences of base-10000 digits).          *)
(* Rounding of the double operations is not modelled for money.  For the   *)
(* Math.floor calls of createWindows the rounding decides the result when  *)
(* the real product is an integer; there both outcomes are kept.           *)
(***************************************************************************)
EXTENDS Integers, Sequences, FiniteSets, TLC

\* ---------------------------------------------------------------- bounds
MaxBars == 3
MaxPrice == 3
BaseDate == 100

\* ------------------------------------------------------- exact arithmetic
Abs(x) == IF x < 0 THEN -x ELSE x

Sign(x) == IF x < 0 THEN -1 ELSE IF x = 0 THEN 0 ELSE 1

Min(a, b) == IF a < b THEN a ELSE b

RECURSIVE GCD(_, _)
GCD(a, b) == IF b = 0 THEN a ELSE GCD(b, a % b)

\* a rational n/d in lowest terms, d > 0
Rat(n, d) ==
  LET g == GCD(Abs(n), Abs(d))
      s == IF d < 0 THEN -1 ELSE 1
  IN  IF n = 0 THEN [n |-> 0, d |-> 1] ELSE [n |-> s * (n \div g), d |-> s * (d \div g)]

BigBase == 10000

RECURSIVE BigOf(_)
BigOf(n) == IF n = 0 THEN << >> ELSE << n % BigBase >> \o BigOf(n \div BigBase)

RECURSIVE BigMulCarry(_, _, _)
BigMulCarry(x, m, c) ==
  IF x = << >> THEN BigOf(c)
  ELSE LET v == Head(x) * m + c
       IN  << v % BigBase >> \o BigMulCarry(Tail(x), m, v \div BigBase)

BigMul(x, m) == IF m = 0 THEN << >> ELSE BigMulCarry(x, m, 0)

RECURSIVE BigMulPow(_, _, _)
BigMulPow(x, m, j) == IF j = 0 THEN x ELSE BigMulPow(BigMul(x, m), m, j - 1)

RECURSIVE BigLeqFrom(_, _, _)
BigLeqFrom(x, y, p) ==
  IF p = 0 THEN TRUE
  ELSE IF x[p] # y[p] THEN x[p] < y[p]
  ELSE BigLeqFrom(x, y, p - 1)

BigLeq(x, y) ==
  IF Len(x) # Len(y) THEN Len(x) < Len(y) ELSE BigLeqFrom(x, y, Len(x))

\* ------------------------------------------------------------- registry
\* strategies: the registered ids with their names and parameter ranges;
\* min, max and step are in hundredths (step 0.25 is 25)
strategies ==
  <<
     [id |-> "hamilton", name |-> "Hamilton Diagram",
      parameters |->
       << [id |-> "threshold", min |-> 1000, max |-> 5000, step |-> 500] >>],
     [id |-> "ma_crossover", name |-> "Moving Average Crossover",
      parameters |->
       << [id |-> "fastPeriod", min |-> 500, max |-> 3000, step |-> 100],
          [id |-> "slowPeriod", min |-> 1500, max |-> 10000, step |-> 500] >>],
     [id |-> "macd", name |-> "MACD Crossover",
      parameters |->
       << [id |-> "fastPeriod", min |-> 500, max |-> 2000, step |-> 100],
          [id |-> "slowPeriod", min |-> 1500, max |-> 4000, step |-> 100],
          [id |-> "signalPeriod", min |-> 500, max |-> 1500, step |-> 100] >>],
     [id |-> "adx_trend", name |-> "ADX Trend Following",
      parameters |->
       << [id |-> "period", min |-> 700, max |-> 2800, step |-> 100],
          [id |-> "threshold", min |-> 1500, max |-> 4000, step |-> 500] >>],
     [id |-> "donchian_breakout", name |-> "Donchian Breakout",
      parameters |->
       << [id |-> "entryPeriod", min |-> 1000, max |-> 5500, step |-> 500],
          [id |-> "exitPeriod", min |-> 500, max |-> 3000, step |-> 500] >>],
     [id |-> "dual_momentum", name |-> "Dual Momentum",
      parameters |->
       << [id |-> "lookback", min |-> 6000, max |-> 25200, step |-> 2000],
          [id |-> "cashReturn", min |-> 0, max |-> 1000, step |-> 50] >>],
     [id |-> "tsmom", name |-> "Time Series Momentum",
      parameters |->
       << [id |-> "lookback", min |-> 2000, max |-> 25200, step |-> 2000] >>],
     [id |-> "keltner_breakout", name |-> "Keltner Channel Breakout",
      parameters |->
       << [id |-> "emaPeriod", min |-> 1000, max |-> 5000, step |-> 500],
          [id |-> "atrPeriod", min |-> 700, max |-> 2100, step |-> 100],
          [id |-> "multiplier", min |-> 100, max |-> 400, step |-> 50] >>],
     [id |-> "supertrend", name |-> "Supertrend",
      parameters |->
       << [id |-> "period", min |-> 500, max |-> 2000, step |-> 100],
          [id |-> "multiplier", min |-> 100, max |-> 500, step |-> 50] >>],
     [id |-> "volatility_breakout", name |-> "Volatility Breakout",
      parameters |->
       << [id |-> "atrPeriod", min |-> 700, max |-> 2100, step |-> 100],
          [id |-> "multiplier", min |-> 20, max |-> 150, step |-> 10] >>],
     [id |-> "volume_breakout", name |-> "Volume Breakout",
      parameters |->
       << [id |-> "breakoutPeriod", min |-> 1000, max |-> 5500, step |-> 500],
          [id |-> "volumePeriod", min |-> 1000, max |-> 5000, step |-> 500],
          [id |-> "volumeMultiplier", min |-> 100, max |-> 300, step |-> 25] >>],
     [id |-> "trend_strength", name |-> "Trend Strength Filter",
      parameters |->
       << [id |-> "trendPeriod", min |-> 10000, max |-> 30000, step |-> 2000],
          [id |-> "adxPeriod", min |-> 700, max |-> 2800, step |-> 100],
          [id |-> "adxThreshold", min |-> 1500, max |-> 3500, step |-> 500],
          [id |-> "atrStopMultiplier", min |-> 100, max |-> 400, step |-> 50] >>] >>

NoStrategy == [id |-> "", name |-> "", parameters |-> << >>]

\* getStrategyById: the first registry entry with that id, or undefined
getStrategyById(id) ==
  LET hits == { j \in 1..Len(strategies) : strategies[j].id = id }
  IN  IF hits = {} THEN NoStrategy
      ELSE strategies[CHOOSE j \in hits : \A h \in hits : j <= h]

Signals == {"BUY", "SELL", "HOLD"}

\* ------------------------------------------------------------ variables
VARIABLES
  data,         \* the bars passed to runBacktest: records [date, close]
  config,       \* the Partial<BacktestConfig> passed by the caller
  cfg,          \* { ...DEFAULT_CONFIG, ...config }
  signals,      \* strategyResult.signals
  pc,           \* position of runBacktest: "start", "loop", "done"
  i,            \* loop index of the bar loop (0-based)
  position,     \* 'LONG' | 'SHORT' | 'FLAT'
  entryPrice, entryDate, entryIndex,
  capital,      \* realized capital
  trades,       \* Trade[]
  equityCurve,  \* one point per processed bar
  peakEquity,
  calcCalls,    \* number of calls of strategy.calculate
  result        \* the BacktestResult returned

btVars == << data, config, cfg, signals, pc, i, position, entryPrice, entryDate,
             entryIndex, capital, trades, equityCurve, peakEquity, calcCalls, result >>

VARIABLES
  wfBars,         \* data.length of the bars passed to runWalkForwardOptimization
  wfConfig,       \* cfg of runWalkForwardOptimization
  wfPc,           \* "start", "windows", "done"
  windows,        \* result of createWindows
  wfW,            \* index of the window loop
  windowResults,  \* WindowResult[]
  backtestRuns,   \* number of runBacktest calls made by the optimizer
  roundedDown,    \* the floors of createWindows that the double arithmetic took low
  wfResult,       \* OptimizationResult | null
  wfFlat,         \* TRUE when every bar passed to the optimizer has the same close
  combinations,   \* result of generateParameterCombinations
  runningCapital, \* the capital handed from one test backtest to the next
  paramCounts,    \* per parameter id, the selected values and their counts
  calls           \* per window, the runBacktest calls made and what they returned

wfVars == << wfBars, wfConfig, wfPc, windows, wfW, windowResults, backtestRuns,
             roundedDown, wfResult, wfFlat, combinations, runningCapital,
             paramCounts, calls >>

VARIABLES
  msBars,         \* data.length of the bars passed to runMultiStrategyOptimization
  strategyIds,    \* the requested strategy ids, in request order
  msPc,           \* "start", "loop", "done"
  msK,            \* number of strategy ids processed
  results,        \* OptimizationResult[] of the strategies that returned one
  ranking,        \* the sorted ranking
  bestStrategy    \* OptimizationResult | null

msVars == << msBars, strategyIds, msPc, msK, results, ranking, bestStrategy >>

VARIABLES
  barDemand,      \* demand of the bar, in hundredths
  barSupply,      \* supply of the bar, in hundredths
  hamiltonParams, \* params passed to the Hamilton strategy's calculate
  zonePc,         \* "classify", "strategy", "done"
  zoneRule,       \* which return statement of mapToPosition was taken (1..10)
  tradingSignal,  \* result of createTradingSignal
  hamiltonSignals \* signals returned by the Hamilton strategy's calculate

zoneVars == << barDemand, barSupply, hamiltonParams, zonePc, zoneRule, tradingSignal,
               hamiltonSignals >>

VARIABLES
  fcData,         \* the bars passed to calculateForces
  fcMethod,       \* the method passed to calculateForces
  fcPc,           \* "call", "done"
  fcResult        \* the samples calculateForces returned

forceVars == << fcData, fcMethod, fcPc, fcResult >>

VARIABLES
  stRegistry,     \* the version of utils/strategies.ts the strategy is taken from
  stId,           \* the id of the strategy whose calculate runs
  stParams,       \* the params passed to calculate, in hundredths
  stLen,          \* data.length
  stI,            \* the loop index i
  stSignals,      \* the signals pushed so far
  stInPosition,   \* the local inPosition of calculate
  stPrev,         \* the facts of bar i - 1
  stPc            \* "loop", "done"

stratVars == << stRegistry, stId, stParams, stLen, stI, stSignals, stInPosition,
                stPrev, stPc >>

VARIABLES
  gpStrategy,     \* the strategy passed to generateParameterCombinations
  gpCustom,       \* customRanges
  gpOver,         \* the parameters whose running sum v passes max by rounding
  gpPc,           \* "call", "done"
  gpResult        \* the list returned

gridVars == << gpStrategy, gpCustom, gpOver, gpPc, gpResult >>

VARIABLES
  wfRun,          \* 1 during the first call of runWalkForwardOptimization, 2 during the second
  wfFirst         \* what the first call was given, computed and returned

twiceVars == << wfRun, wfFirst >>

VARIABLES
  dateNow,           \* Date.now(), in hours
  advances,         \* how often the clock has moved
  clicks,           \* how often Fetch Data was clicked
  cache,            \* the marketData store of IndexedDB, by cache key
  selectedSymbol,   \* App state
  selectedTimeframe,
  rawData,
  loading,
  error,
  isUsingCache,
  tasks,            \* slot 0: the running handleFetchData; others: background refreshes
  lastRequest,      \* symbol and timeframe of the latest call that passed line 41
  served,           \* the latest data getCachedData returned, and when
  apiCall,          \* the cache entry of the key when the API was last called
  call              \* what the latest handleFetchData found at line 49, and how it ended

appVars == << dateNow, advances, clicks, cache, selectedSymbol, selectedTimeframe, rawData,
              loading, error, isUsingCache, tasks, lastRequest, served, apiCall, call >>

VARIABLES
  riData,       \* the bars passed to calculateRSI
  riPeriod,     \* its period argument
  riPc,
  riResult      \* what it returned, with the averages it computed

rsiVars == << riData, riPeriod, riPc, riResult >>

VARIABLES
  suData,        \* the bars passed to the supertrend strategy
  suPeriod,      \* params.period
  suMultiplier,  \* params.multiplier
  suPc,
  suResult       \* the StrategyResult

supertrendVars == << suData, suPeriod, suMultiplier, suPc, suResult >>

vars == << btVars, wfVars, msVars, zoneVars, forceVars, stratVars, gridVars, twiceVars, appVars, rsiVars, supertrendVars >>

\* what an operation of one component leaves alone
notBT == << wfVars, msVars, zoneVars, forceVars, stratVars, gridVars, twiceVars, appVars, rsiVars, supertrendVars >>

notWF == << btVars, msVars, zoneVars, forceVars, stratVars, gridVars, twiceVars, appVars, rsiVars, supertrendVars >>

notMS == << btVars, wfVars, zoneVars, forceVars, stratVars, gridVars, twiceVars, appVars, rsiVars, supertrendVars >>

notZone == << btVars, wfVars, msVars, forceVars, stratVars, gridVars, twiceVars, appVars, rsiVars, supertrendVars >>

notForce == << btVars, wfVars, msVars, zoneVars, stratVars, gridVars, twiceVars, appVars, rsiVars, supertrendVars >>

notStrat == << btVars, wfVars, msVars, zoneVars, forceVars, gridVars, twiceVars, appVars, rsiVars, supertrendVars >>

notGrid == << btVars, wfVars, msVars, zoneVars, forceVars, stratVars, twiceVars, appVars, rsiVars, supertrendVars >>

notTwice == << btVars, wfVars, msVars, zoneVars, forceVars, stratVars, gridVars, appVars, rsiVars, supertrendVars >>

notWFTwice == << btVars, msVars, zoneVars, forceVars, stratVars, gridVars, appVars, rsiVars, supertrendVars >>

notApp == << btVars, wfVars, msVars, zoneVars, forceVars, stratVars, gridVars, twiceVars, rsiVars, supertrendVars >>

notRsi == << btVars, wfVars, msVars, zoneVars, forceVars, stratVars, gridVars, twiceVars, appVars, supertrendVars >>

notSupertrend == << btVars, wfVars, msVars, zoneVars, forceVars, stratVars, gridVars, twiceVars, appVars, rsiVars >>

\* ---------------------------------------------------------------- money
\* numerator and denominator of F = 1 - transactionCost/100
CostNum == 100 * cfg.transactionCost.d - cfg.transactionCost.n

CostDen == 100 * cfg.transactionCost.d

Amount(k, n, d) ==
  LET r == Rat(n, d)
  IN  IF r.n = 0 THEN [k |-> 0, n |-> 0, d |-> 1] ELSE [k |-> k, n |-> r.n, d |-> r.d]

\* m * (1 - transactionCost / 100)
MulCost(m) == Amount(m.k + 1, m.n, m.d)

\* m * (1 + returnPct / 100), returnPct a rational
MulReturn(m, returnPct) ==
  Amount(m.k, m.n * (100 * returnPct.d + returnPct.n), m.d * 100 * returnPct.d)

\* |a| <= |b|, both sides cleared of denominators
AbsLeq(a, b) ==
  LET c == Min(a.k, b.k)
      l == BigMulPow(BigMulPow(BigMul(BigOf(Abs(a.n)), b.d), CostNum, a.k - c), CostDen, b.k - c)
      r == BigMulPow(BigMulPow(BigMul(BigOf(Abs(b.n)), a.d), CostNum, b.k - c), CostDen, a.k - c)
  IN  BigLeq(l, r)

\* a <= b as real numbers
Leq(a, b) ==
  IF Sign(a.n) # Sign(b.n) THEN Sign(a.n) < Sign(b.n)
  ELSE IF Sign(a.n) = 0 THEN TRUE
  ELSE IF Sign(a.n) > 0 THEN AbsLeq(a, b)
  ELSE AbsLeq(b, a)

\* a = b as real numbers
Same(a, b) == Leq(a, b) /\ Leq(b, a)

\* Math.max(a, b)
Max(a, b) == IF Leq(b, a) THEN a ELSE b

\* ----------------------------------------------------------- backtester
DEFAULT_CONFIG ==
  [strategyId |-> "hamilton", initialCapital |-> 10000, allowShorts |-> FALSE,
   transactionCost |-> [n |-> 1, d |-> 10]]

\* { ...DEFAULT_CONFIG, ...config }
MergeConfig(def, over) ==
  [key \in DOMAIN def |-> IF key \in DOMAIN over THEN over[key] ELSE def[key]]

\* the configurations a caller passes: any subset of the overridable fields
RequestedIds == {"no_such_strategy"}

Costs == { [n |-> 0, d |-> 1], [n |-> 50, d |-> 1] }

Overrides == [strategyId : RequestedIds, allowShorts : {TRUE}, transactionCost : Costs]

Configs == { [key \in K |-> o[key]] : o \in Overrides, K \in SUBSET {"strategyId", "allowShorts", "transactionCost"} }

Bars(n) == { [j \in 1..n |-> [date |-> BaseDate + j - 1, close |-> c[j]]] : c \in [1..n -> 1..MaxPrice] }

One == [k |-> 0, n |-> 1, d |-> 1]

Zero == [k |-> 0, n |-> 0, d |-> 1]

\* ((price - entryPrice) / entryPrice) * 100
LongReturn(price, entry) == Rat((price - entry) * 100, entry)

\* ((entryPrice - price) / entryPrice) * 100
ShortReturn(price, entry) == Rat((entry - price) * 100, entry)

createEmptyResult(strategyId) ==
  LET strategy == getStrategyById(strategyId)
  IN  [strategyId |-> strategyId,
       strategyName |-> IF strategy = NoStrategy THEN "Unknown" ELSE strategy.name,
       totalReturn |-> 0, buyAndHoldReturn |-> 0, excessReturn |-> 0,
       annualizedReturn |-> 0, annualizedBuyAndHold |-> 0,
       maxDrawdown |-> 0, maxDrawdownBuyAndHold |-> 0, volatility |-> 0,
       sharpeRatio |-> 0, sortinoRatio |-> 0, calmarRatio |-> 0,
       totalTrades |-> 0, winningTrades |-> 0, losingTrades |-> 0, winRate |-> 0,
       avgWin |-> 0, avgLoss |-> 0, profitFactor |-> 0, avgHoldingPeriod |-> 0,
       maxConsecutiveWins |-> 0, maxConsecutiveLosses |-> 0,
       equityCurve |-> << >>, trades |-> << >>, signals |-> << >>,
       startDate |-> "", endDate |-> "", tradingDays |-> 0]

NoResult == [strategyId |-> "none"]

InitBT ==
  /\ \E n \in 0..MaxBars : data \in Bars(n)
  /\ config \in Configs
  /\ cfg = DEFAULT_CONFIG
  /\ signals = << >>
  /\ pc = "start"
  /\ i = 0
  /\ position = "FLAT"
  /\ entryPrice = 0
  /\ entryDate = 0
  /\ entryIndex = 0
  /\ capital = Zero
  /\ trades = << >>
  /\ equityCurve = << >>
  /\ peakEquity = Zero
  /\ calcCalls = 0
  /\ result = NoResult

\* variant: only an empty series is rejected
NoBars(d) == Len(d) < 1

\* line 80: data.length < 2
TooFewBars(d) == Len(d) < 2

\* lines 77-88: merge the configuration, return the empty result for fewer
\* than 2 bars or an unknown strategy
BTReject ==
  /\ pc = "start"
  /\ LET c == MergeConfig(DEFAULT_CONFIG, config)
     IN  /\ TooFewBars(data) \/ getStrategyById(c.strategyId) = NoStrategy
         /\ cfg' = c
         /\ result' = createEmptyResult(c.strategyId)
  /\ pc' = "done"
  /\ UNCHANGED << data, config, signals, i, position, entryPrice, entryDate, entryIndex,
                  capital, trades, equityCurve, peakEquity, calcCalls >>
  /\ UNCHANGED notBT

\* variant: the initial entry is free of cost
InitialCapitalNoCost == One

\* capital before the first bar: initialCapital * (1 - transactionCost / 100)
InitialCapitalAfterCost == MulCost(One)

\* peakEquity before the first bar
InitialPeak == One

\* lines 90-107: obtain the signals and start invested LONG at bar 0
BTStart ==
  /\ pc = "start"
  /\ LET c == MergeConfig(DEFAULT_CONFIG, config)
     IN  /\ ~ TooFewBars(data)
         /\ getStrategyById(c.strategyId) # NoStrategy
         /\ cfg' = c
  /\ signals' \in [1..Len(data) -> Signals]
  /\ calcCalls' = calcCalls + 1
  /\ capital' = InitialCapitalAfterCost
  /\ position' = "LONG"
  /\ entryPrice' = data[1].close
  /\ entryDate' = data[1].date
  /\ entryIndex' = 0
  /\ trades' = << >>
  /\ equityCurve' = << >>
  /\ peakEquity' = InitialPeak
  /\ i' = 0
  /\ pc' = "loop"
  /\ UNCHANGED << data, config, result >>
  /\ UNCHANGED notBT

Trade(type, st, bar, returnPct, idx) ==
  [entryDate |-> st.entryDate, entryPrice |-> st.entryPrice,
   exitDate |-> bar.date, exitPrice |-> bar.close,
   type |-> type, returnPct |-> returnPct, holdingPeriod |-> idx - st.entryIndex]

\* variant: a position is opened without charging the entry cost
EnterNoCost(st, type, bar, idx) ==
  [st EXCEPT !.position = type, !.entryPrice = bar.close, !.entryDate = bar.date,
             !.entryIndex = idx]

\* the position opened at this bar, one entry cost charged
Enter(st, type, bar, idx) ==
  [st EXCEPT !.position = type, !.entryPrice = bar.close, !.entryDate = bar.date,
             !.entryIndex = idx, !.capital = MulCost(st.capital)]

\* variant: a closed LONG is left FLAT also when shorts are allowed
CloseLongStaysFlat(st, bar, idx, allowShorts) ==
  LET returnPct == LongReturn(bar.close, st.entryPrice)
  IN  [st EXCEPT !.capital = MulCost(MulReturn(st.capital, returnPct)),
                 !.trades = Append(st.trades, Trade("LONG", st, bar, returnPct, idx)),
                 !.position = "FLAT"]

\* lines 131-158: LONG and SELL
CloseLong(st, bar, idx, allowShorts) ==
  LET returnPct == LongReturn(bar.close, st.entryPrice)
      closed == [st EXCEPT !.capital = MulCost(MulReturn(st.capital, returnPct)),
                           !.trades = Append(st.trades, Trade("LONG", st, bar, returnPct, idx)),
                           !.position = "FLAT"]
  IN  IF allowShorts THEN Enter(closed, "SHORT", bar, idx) ELSE closed

\* variant: a closed SHORT is left FLAT, as a closed LONG is without shorts
CloseShortStaysFlat(st, bar, idx) ==
  LET returnPct == ShortReturn(bar.close, st.entryPrice)
  IN  [st EXCEPT !.capital = MulCost(MulReturn(st.capital, returnPct)),
                 !.trades = Append(st.trades, Trade("SHORT", st, bar, returnPct, idx)),
                 !.position = "FLAT"]

\* lines 159-185: SHORT and BUY
CloseShort(st, bar, idx) ==
  LET returnPct == ShortReturn(bar.close, st.entryPrice)
      closed == [st EXCEPT !.capital = MulCost(MulReturn(st.capital, returnPct)),
                           !.trades = Append(st.trades, Trade("SHORT", st, bar, returnPct, idx)),
                           !.position = "FLAT"]
  IN  Enter(closed, "LONG", bar, idx)

\* lines 117-185: the position change of one bar
HandleSignal(st, signal, bar, idx, allowShorts) ==
  IF st.position = "FLAT" THEN
    IF signal = "BUY" THEN Enter(st, "LONG", bar, idx)
    ELSE IF allowShorts /\ signal = "SELL" THEN Enter(st, "SHORT", bar, idx)
    ELSE st
  ELSE IF st.position = "LONG" THEN
    IF signal = "SELL" THEN CloseLong(st, bar, idx, allowShorts) ELSE st
  ELSE IF st.position = "SHORT" THEN
    IF signal = "BUY" THEN CloseShort(st, bar, idx) ELSE st
  ELSE st

\* variant: the open position's unrealized return is left out
CurrentEquityRealized(st, price) == st.capital

\* lines 187-195: capital adjusted by the unrealized return of the open position
CurrentEquity(st, price) ==
  IF st.position = "LONG" THEN MulReturn(st.capital, LongReturn(price, st.entryPrice))
  ELSE IF st.position = "SHORT" THEN MulReturn(st.capital, ShortReturn(price, st.entryPrice))
  ELSE st.capital

\* buyAndHoldShares * price, buyAndHoldShares = initialCapital / data[0].close
BuyAndHoldValue(price) == Amount(0, price, data[1].close)

\* ((peakEquity - currentEquity) / peakEquity) * 100 is kept as its two
\* operands; it is 0 exactly when they are equal
Drawdown(peak, equity) == [peak |-> peak, equity |-> equity]

DrawdownIsZero(dd) == Same(dd.peak, dd.equity)

Local == [position |-> position, entryPrice |-> entryPrice, entryDate |-> entryDate,
          entryIndex |-> entryIndex, capital |-> capital, trades |-> trades]

\* lines 110-210: one iteration of the bar loop
BTBar ==
  /\ pc = "loop"
  /\ i < Len(data)
  /\ LET bar == data[i + 1]
         st == HandleSignal(Local, signals[i + 1], bar, i, cfg.allowShorts)
         currentEquity == CurrentEquity(st, bar.close)
         peak == Max(peakEquity, currentEquity)
     IN  /\ position' = st.position
         /\ entryPrice' = st.entryPrice
         /\ entryDate' = st.entryDate
         /\ entryIndex' = st.entryIndex
         /\ capital' = st.capital
         /\ trades' = st.trades
         /\ peakEquity' = peak
         /\ equityCurve' = Append(equityCurve,
                                  [date |-> bar.date, strategy |-> currentEquity,
                                   buyAndHold |-> BuyAndHoldValue(bar.close),
                                   drawdown |-> Drawdown(peak, currentEquity)])
  /\ i' = i + 1
  /\ UNCHANGED << data, config, cfg, signals, pc, calcCalls, result >>
  /\ UNCHANGED notBT

\* variant: only an open LONG is recorded at the end
ForceCloseLongOnly(st, last, n) ==
  IF st.position = "LONG" THEN
    LET returnPct == LongReturn(last.close, st.entryPrice)
    IN  [st EXCEPT !.capital = MulReturn(st.capital, returnPct),
                   !.trades = Append(st.trades, Trade("LONG", st, last, returnPct, n - 1))]
  ELSE st

\* lines 212-242: close any open position at the last bar, no cost charged
ForceClose(st, last, n) ==
  IF st.position = "LONG" THEN
    LET returnPct == LongReturn(last.close, st.entryPrice)
    IN  [st EXCEPT !.capital = MulReturn(st.capital, returnPct),
                   !.trades = Append(st.trades, Trade("LONG", st, last, returnPct, n - 1))]
  ELSE IF st.position = "SHORT" THEN
    LET returnPct == ShortReturn(last.close, st.entryPrice)
    IN  [st EXCEPT !.capital = MulReturn(st.capital, returnPct),
                   !.trades = Append(st.trades, Trade("SHORT", st, last, returnPct, n - 1))]
  ELSE st

\* lines 212-357: forced close, final equity and the returned result.
\* A quotient n/d as JavaScript computes it: d = 0 stands for Infinity
\* (n = 1), -Infinity (n = -1) and NaN (n = 0).
Infinity == [n |-> 1, d |-> 0]

ZeroOverZero == [n |-> 0, d |-> 0]

RatZero == [n |-> 0, d |-> 1]

RatAdd(a, b) == Rat(a.n * b.d + b.n * a.d, a.d * b.d)

Quotient(a, b) ==
  IF b.n = 0 THEN [n |-> Sign(a.n), d |-> 0] ELSE Rat(a.n * b.d, a.d * b.n)

\* lines 298-299: reduce((sum, t) => sum + t.returnPct, 0), from the k-th trade
RECURSIVE SumReturns(_, _)
SumReturns(ts, k) ==
  IF k > Len(ts) THEN RatZero ELSE RatAdd(ts[k].returnPct, SumReturns(ts, k + 1))

\* line 295
Winning(t) == t.returnPct.n > 0

\* line 296
Losing(t) == t.returnPct.n <= 0

\* line 298
TotalWins(ts) == SumReturns(SelectSeq(ts, Winning), 1)

\* line 299
TotalLosses(ts) ==
  LET sum == SumReturns(SelectSeq(ts, Losing), 1) IN [n |-> Abs(sum.n), d |-> sum.d]

\* variant: the quotient without the guard against a zero divisor
profitFactorUnguarded(totalWins, totalLosses) == Quotient(totalWins, totalLosses)

\* line 303
profitFactor(totalWins, totalLosses) ==
  IF totalLosses.n > 0 THEN Quotient(totalWins, totalLosses)
  ELSE IF totalWins.n > 0 THEN Infinity ELSE RatZero

\* totalReturn and buyAndHoldReturn are ((x - initialCapital) / initialCapital) * 100
\* of finalEquity and buyAndHoldFinal, which are the fields kept here; the
\* trade counts and the profit factor are those of lines 294-303; the
\* metrics built from Math.pow and Math.sqrt are not part of the model.
BTFinish ==
  /\ pc = "loop"
  /\ i = Len(data)
  /\ LET last == data[Len(data)]
         st == ForceClose(Local, last, Len(data))
         lastEquity == equityCurve[Len(equityCurve)].strategy
         finalEquity == IF equityCurve = << >> \/ lastEquity.n = 0 THEN st.capital ELSE lastEquity
     IN  /\ capital' = st.capital
         /\ trades' = st.trades
         /\ result' = [strategyId |-> cfg.strategyId,
                       strategyName |-> getStrategyById(cfg.strategyId).name,
                       finalEquity |-> finalEquity,
                       buyAndHoldFinal |-> BuyAndHoldValue(last.close),
                       totalTrades |-> Len(st.trades),
                       winningTrades |-> Len(SelectSeq(st.trades, Winning)),
                       losingTrades |-> Len(SelectSeq(st.trades, Losing)),
                       profitFactor |-> profitFactor(TotalWins(st.trades), TotalLosses(st.trades)),
                       equityCurve |-> equityCurve, trades |-> st.trades, signals |-> signals,
                       startDate |-> data[1].date, endDate |-> last.date,
                       tradingDays |-> Len(data)]
  /\ pc' = "done"
  /\ UNCHANGED << data, config, cfg, signals, i, position, entryPrice, entryDate, entryIndex,
                  equityCurve, peakEquity, calcCalls >>
  /\ UNCHANGED notBT

\* -------------------------------------------------- walk-forward optimizer
MinPeriods == 200
MaxWFBars == 210
MaxWindows == 10

\* cfg.parameterRanges left undefined
NoRanges == [id \in {} |-> 0]

\* the empty assignment {}
NoParams == [id \in {} |-> 0]

OPT_DEFAULT_CONFIG ==
  [strategyId |-> "ma_crossover", numWindows |-> 5, trainRatio |-> [n |-> 7, d |-> 10],
   optimizationMetric |-> "sharpe", initialCapital |-> 10000, allowShorts |-> FALSE,
   transactionCost |-> [n |-> 1, d |-> 10], parameterRanges |-> NoRanges]

\* Math.floor(num / den) of a double quotient.  When the real quotient is an
\* integer the double may lie just below it; down selects that outcome.
Floor(num, den, down) ==
  IF num % den = 0 /\ down THEN (num \div den) - 1 ELSE num \div den

\* the floors of createWindows whose real argument is an integer: index w for
\* the first term of trainEnd of window w, index numWindows for the second
ExactFloors(totalPeriods, numWindows, trainRatio) ==
  { w \in 0..(numWindows - 1) :
      ((w + 1) * totalPeriods * trainRatio.n) % (trainRatio.d * numWindows) = 0 }
  \cup
  { w \in {numWindows} : (totalPeriods * (trainRatio.d - trainRatio.n)) % trainRatio.d = 0 }

\* variant: the training range without the floor(total * (1 - trainRatio)) offset
TrainEndNoOffset(w, totalPeriods, numWindows, trainRatio, down) ==
  Floor((w + 1) * totalPeriods * trainRatio.n, trainRatio.d * numWindows, w \in down)

\* line 287
TrainEnd(w, totalPeriods, numWindows, trainRatio, down) ==
  Floor((w + 1) * totalPeriods * trainRatio.n, trainRatio.d * numWindows, w \in down)
  + Floor(totalPeriods * (trainRatio.d - trainRatio.n), trainRatio.d, numWindows \in down)

\* variant: testEnd is not clamped to the number of bars
RECURSIVE WindowsFromUnclamped(_, _, _, _, _)
WindowsFromUnclamped(w, totalPeriods, numWindows, trainRatio, down) ==
  IF w >= numWindows THEN << >>
  ELSE LET testSize == totalPeriods \div numWindows
           trainEnd == TrainEnd(w, totalPeriods, numWindows, trainRatio, down)
           testEnd == trainEnd + testSize
           rest == WindowsFromUnclamped(w + 1, totalPeriods, numWindows, trainRatio, down)
       IN  IF testEnd > trainEnd /\ trainEnd > 20
           THEN << [trainStart |-> 0, trainEnd |-> trainEnd,
                    testStart |-> trainEnd, testEnd |-> testEnd] >> \o rest
           ELSE rest

\* lines 285-305: the loop of createWindows from window w on
RECURSIVE WindowsFrom(_, _, _, _, _)
WindowsFrom(w, totalPeriods, numWindows, trainRatio, down) ==
  IF w >= numWindows THEN << >>
  ELSE LET testSize == totalPeriods \div numWindows
           trainEnd == TrainEnd(w, totalPeriods, numWindows, trainRatio, down)
           trainStart == 0
           testStart == trainEnd
           testEnd == Min(testStart + testSize, totalPeriods)
           rest == WindowsFrom(w + 1, totalPeriods, numWindows, trainRatio, down)
       IN  IF testEnd > testStart /\ trainEnd > trainStart + 20
           THEN << [trainStart |-> trainStart, trainEnd |-> trainEnd,
                    testStart |-> testStart, testEnd |-> testEnd] >> \o rest
           ELSE rest

createWindows(totalPeriods, numWindows, trainRatio, down) ==
  WindowsFrom(0, totalPeriods, numWindows, trainRatio, down)

\* Whether the double v of the loop can differ from min + k * step: min, max
\* and step are in hundredths, and a double holds a number of hundredths
\* exactly only if it is a multiple of a quarter (for the small values here).
\* When min or step is not, each v += step rounds, and the sum that equals
\* max in exact arithmetic may be a double above max (0.2 and thirteen times
\* 0.1 give 1.5000000000000002).
MaySumAbove(r) ==
  /\ r.min % 25 # 0 \/ r.step % 25 # 0
  /\ r.min < r.max
  /\ (r.max - r.min) % r.step = 0

\* lines 243-246: for (let v = min; v <= max; v += step) values.push(v);
\* over: the sum that is max in exact arithmetic is a double above max
RECURSIVE ValuesFrom(_, _, _, _)
ValuesFrom(v, max, step, over) ==
  IF v > max \/ (v = max /\ over) THEN << >>
  ELSE << v >> \o ValuesFrom(v + step, max, step, over)

\* lines 238-241: custom?.min ?? p.min, custom?.max ?? p.max, custom?.step ?? p.step
RangeOf(p, customRanges) ==
  IF p.id \in DOMAIN customRanges THEN customRanges[p.id]
  ELSE [min |-> p.min, max |-> p.max, step |-> p.step]

\* lines 236-247: the values of one parameter, from the custom range if given
ParamRange(p, customRanges, over) ==
  LET r == RangeOf(p, customRanges)
  IN  [id |-> p.id, values |-> ValuesFrom(r.min, r.max, r.step, p.id \in over)]

\* lines 252-263: generate(index, current), the combinations in push order
RECURSIVE generate(_, _, _), generateEach(_, _, _, _)
generate(paramRanges, index, current) ==
  IF index > Len(paramRanges) THEN << current >>
  ELSE generateEach(paramRanges, index, current, 1)

\* lines 259-262: the loop over the values of paramRanges[index], from the k-th
generateEach(paramRanges, index, current, k) ==
  IF k > Len(paramRanges[index].values) THEN << >>
  ELSE generate(paramRanges, index + 1,
                (paramRanges[index].id :> paramRanges[index].values[k]) @@ current)
       \o generateEach(paramRanges, index, current, k + 1)

\* lines 227-268
generateParameterCombinations(strategy, customRanges, over) ==
  IF Len(strategy.parameters) = 0 THEN << NoParams >>
  ELSE generate([j \in 1..Len(strategy.parameters) |->
                   ParamRange(strategy.parameters[j], customRanges, over)], 1, NoParams)

\* a strategy that declares no parameters
Unparameterised == [id |-> "unparameterised", name |-> "Unparameterised", parameters |-> << >>]

MaxCustomSteps == 2

\* customRanges: undefined, or a range for one declared parameter from its
\* min over at most MaxCustomSteps steps (max below min: no value at all)
CustomRanges(strategy) ==
  {NoRanges} \cup
  { (strategy.parameters[j].id :>
       [min |-> strategy.parameters[j].min,
        max |-> strategy.parameters[j].min + k * strategy.parameters[j].step,
        step |-> strategy.parameters[j].step]) :
      j \in 1..Len(strategy.parameters), k \in -1..MaxCustomSteps }

\* the parameters whose loop can round
Rounding(strategy, customRanges) ==
  { strategy.parameters[j].id : j \in
      { h \in 1..Len(strategy.parameters) :
          MaySumAbove(RangeOf(strategy.parameters[h], customRanges)) } }

InitGen ==
  /\ gpStrategy \in { strategies[j] : j \in 1..Len(strategies) } \cup {Unparameterised}
  /\ gpCustom \in CustomRanges(gpStrategy)
  /\ gpOver \in SUBSET Rounding(gpStrategy, gpCustom)
  /\ gpPc = "call"
  /\ gpResult = << >>

\* lines 227-268
Generate ==
  /\ gpPc = "call"
  /\ gpResult' = generateParameterCombinations(gpStrategy, gpCustom, gpOver)
  /\ gpPc' = "done"
  /\ UNCHANGED << gpStrategy, gpCustom, gpOver >>
  /\ UNCHANGED notGrid

\* A JavaScript number: finite, +Infinity, -Infinity or NaN.
Num(v) == [t |-> "num", v |-> v]

PosInf == [t |-> "inf", v |-> 1]

NegInf == [t |-> "inf", v |-> -1]

NaN == [t |-> "nan", v |-> 0]

\* JavaScript a > b: false whenever an operand is NaN
Gt(a, b) ==
  CASE a.t = "nan" \/ b.t = "nan" -> FALSE
    [] a.t = "inf" /\ b.t = "inf"  -> a.v > b.v
    [] a.t = "inf"                 -> a.v > 0
    [] b.t = "inf"                 -> b.v < 0
    [] OTHER                       -> a.v > b.v

\* What a backtest on moving prices can come to: the total return in percent,
\* the value the three ratios have when the annualized return is a number, and
\* the profit factor.  Losing more than everything takes a short position.
Outcomes(allowShorts) ==
  { [totalReturn |-> -50, ratio |-> -1, profitFactor |-> Num(0)],
    [totalReturn |-> 100, ratio |-> 2, profitFactor |-> PosInf],
    [totalReturn |-> 100, ratio |-> 1, profitFactor |-> Num(150)] }
  \cup (IF allowShorts
        THEN { [totalReturn |-> -150, ratio |-> -3, profitFactor |-> Num(0)] }
        ELSE { })

\* backtesting.ts 252-254: Math.pow(finalEquity / initialCapital, 1 / years) is
\* NaN for a negative base and an exponent 252 / tradingDays that is no integer
annualizedReturnIsNaN(finalEquity, initialCapital, tradingDays) ==
  /\ (finalEquity < 0) # (initialCapital < 0)
  /\ finalEquity # 0
  /\ 252 % tradingDays # 0

\* backtesting.ts 281, 289, 292: annualizedReturn divided by a positive number
RatioOf(isNaN, value) == IF isNaN THEN NaN ELSE Num(value)

\* backtesting.ts 376-409 as the optimizer reads it: createEmptyResult
EmptyBacktestResult ==
  [sharpeRatio |-> Num(0), sortinoRatio |-> Num(0), calmarRatio |-> Num(0),
   totalReturn |-> Num(0), profitFactor |-> Num(0), curveLength |-> 0, lastEquity |-> 0]

\* backtesting.ts 244-303 as the optimizer reads it: the five metrics, the
\* length of equityCurve and its last strategy value
BacktestResult(initialCapital, tradingDays, o) ==
  LET finalEquity == (initialCapital * (100 + o.totalReturn)) \div 100
      isNaN == annualizedReturnIsNaN(finalEquity, initialCapital, tradingDays)
  IN  [sharpeRatio |-> RatioOf(isNaN, o.ratio),
       sortinoRatio |-> RatioOf(isNaN, o.ratio),
       calmarRatio |-> RatioOf(isNaN, o.ratio),
       totalReturn |-> Num(o.totalReturn),
       profitFactor |-> o.profitFactor,
       curveLength |-> tradingDays,
       lastEquity |-> finalEquity]

\* constant prices and no transaction cost: the equity never moves
FlatOutcome == [totalReturn |-> 0, ratio |-> 0, profitFactor |-> Num(0)]

\* the results runBacktest(slice, {..., initialCapital, allowShorts,
\* transactionCost}) can return for a slice of tradingDays bars
Results(initialCapital, tradingDays, c, flat) ==
  IF tradingDays < 2 THEN { EmptyBacktestResult }
  ELSE IF flat /\ c.transactionCost.n = 0
       THEN { BacktestResult(initialCapital, tradingDays, FlatOutcome) }
       ELSE { BacktestResult(initialCapital, tradingDays, o) : o \in Outcomes(c.allowShorts) }

\* lines 213-222
getMetricValue(r, metric) ==
  CASE metric = "sharpe"       -> r.sharpeRatio
    [] metric = "sortino"      -> r.sortinoRatio
    [] metric = "calmar"       -> r.calmarRatio
    [] metric = "totalReturn"  -> r.totalReturn
    [] metric = "profitFactor" -> IF r.profitFactor = PosInf THEN Num(100) ELSE r.profitFactor
    [] OTHER                   -> r.sharpeRatio

\* lines 319-339: the loop of optimizeWindow from the j-th combination on;
\* metrics[j] is getMetricValue of the training backtest of combos[j]
RECURSIVE optimizeFrom(_, _, _, _)
optimizeFrom(metrics, combos, j, best) ==
  IF j > Len(combos) THEN best
  ELSE optimizeFrom(metrics, combos, j + 1,
                    IF Gt(metrics[j], best.bestMetric)
                    THEN [bestParams |-> combos[j], bestMetric |-> metrics[j]]
                    ELSE best)

\* lines 313-340
optimizeWindow(metrics, combos) ==
  optimizeFrom(metrics, combos, 1,
               [bestParams |-> IF Len(combos) > 0 THEN combos[1] ELSE NoParams,
                bestMetric |-> NegInf])

\* line 397: a number used as a property key becomes its decimal text, held
\* here as whole part and hundredths (parameter values are in hundredths)
ToKey(value) == [whole |-> value \div 100, frac |-> value % 100]

\* line 451: parseFloat of a key
parseFloat(key) == key.whole * 100 + key.frac

\* a key that is the text of a non-negative integer is an array index
IsArrayIndex(key) == key.whole >= 0 /\ key.frac = 0

\* line 397 for one parameter: counts[value] = (counts[value] || 0) + 1;
\* counts lists its keys in creation order
CountValue(counts, value) ==
  IF \E k \in 1..Len(counts) : counts[k].key = ToKey(value)
  THEN [k \in 1..Len(counts) |->
          IF counts[k].key = ToKey(value)
          THEN [key |-> counts[k].key, count |-> counts[k].count + 1]
          ELSE counts[k]]
  ELSE Append(counts, [key |-> ToKey(value), count |-> 1])

\* lines 395-398
TrackSelections(counts, bestParams) ==
  [id \in (DOMAIN counts) \cup (DOMAIN bestParams) |->
     IF id \in DOMAIN bestParams
     THEN CountValue(IF id \in DOMAIN counts THEN counts[id] ELSE << >>, bestParams[id])
     ELSE counts[id]]

\* line 448, Object.entries(counts): array-index keys in ascending numeric
\* order first, then the other keys in creation order
ObjectEntries(counts) ==
  LET all == 1..Len(counts)
      indexKeys == { k \in all : IsArrayIndex(counts[k].key) }
      Place(k) ==
        IF k \in indexKeys
        THEN 1 + Cardinality({ m \in indexKeys : counts[m].key.whole < counts[k].key.whole })
        ELSE Cardinality(indexKeys) + 1
             + Cardinality({ m \in all \ indexKeys : m < k })
  IN  [pos \in all |-> counts[CHOOSE k \in all : Place(k) = pos]]

\* lines 446-453: the loop over the entries from the k-th on
RECURSIVE MostSelectedFrom(_, _, _, _)
MostSelectedFrom(entries, k, maxCount, bestValue) ==
  IF k > Len(entries) THEN bestValue
  ELSE IF entries[k].count > maxCount
       THEN MostSelectedFrom(entries, k + 1, entries[k].count, parseFloat(entries[k].key))
       ELSE MostSelectedFrom(entries, k + 1, maxCount, bestValue)

\* lines 443-455
recommendedParams(counts) ==
  [id \in DOMAIN counts |-> MostSelectedFrom(ObjectEntries(counts[id]), 1, 0, 0)]

\* variant: the capital of the next test backtest is never updated
KeepRunningCapital(testResult, running) == running

\* lines 408-411
NextRunningCapital(testResult, running) ==
  IF testResult.curveLength > 0 THEN testResult.lastEquity ELSE running

OptRequestedIds == {"hamilton", "no_such_strategy"}

TrainRatios ==
  { [n |-> 1, d |-> 10], [n |-> 3, d |-> 5], [n |-> 7, d |-> 10], [n |-> 4, d |-> 5],
    [n |-> 999, d |-> 1000] }

BarCounts == {0, MinPeriods - 1, 250} \cup (MinPeriods..MaxWFBars)

Pending == [returned |-> "nothing"]

Null == [returned |-> "null"]

\* the state of a call that has not started
WFEntry ==
  /\ wfPc = "start"
  /\ windows = << >>
  /\ wfW = 0
  /\ windowResults = << >>
  /\ backtestRuns = 0
  /\ roundedDown = {}
  /\ wfResult = Pending
  /\ combinations = << >>
  /\ runningCapital = 0
  /\ paramCounts = NoParams
  /\ calls = << >>

\* calls on bars of constant close, without transaction cost: the geometry
\* of the windows over every bar count, window count and train ratio
InitWF ==
  /\ wfBars \in BarCounts
  /\ wfFlat = TRUE
  /\ wfConfig \in [strategyId : OptRequestedIds, numWindows : 1..MaxWindows,
                   trainRatio : TrainRatios, optimizationMetric : {"sharpe"},
                   initialCapital : {10000}, allowShorts : {FALSE},
                   transactionCost : {[n |-> 0, d |-> 1]}, parameterRanges : {NoRanges}]
  /\ WFEntry

\* a custom grid of two thresholds
TwoThresholds == ("threshold" :> [min |-> 1000, max |-> 1500, step |-> 500])

SearchBarCounts == {MinPeriods - 1, MinPeriods + 1}

\* calls on bars of moving prices over a small grid: the search in each
\* window, the capital carried between windows and the recommended parameters
InitSearch ==
  /\ wfBars \in SearchBarCounts
  /\ wfFlat = FALSE
  /\ wfConfig \in [strategyId : {"hamilton"}, numWindows : {2, 3},
                   trainRatio : {[n |-> 7, d |-> 10]},
                   optimizationMetric : {"sharpe", "profitFactor"},
                   initialCapital : {10000}, allowShorts : BOOLEAN,
                   transactionCost : {[n |-> 1, d |-> 10]}, parameterRanges : {TwoThresholds}]
  /\ WFEntry

\* variant: exactly 200 bars are rejected too
AtOrBelowMinimum(n) == n <= MinPeriods

\* line 357: data.length < 200
BelowMinimum(n) == n < MinPeriods

\* lines 349-360: unknown strategy or fewer than 200 bars
WFReject ==
  /\ wfPc = "start"
  /\ getStrategyById(wfConfig.strategyId) = NoStrategy \/ BelowMinimum(wfBars)
  /\ wfResult' = Null
  /\ wfPc' = "done"
  /\ UNCHANGED << wfBars, wfConfig, windows, wfW, windowResults, backtestRuns, roundedDown,
                  wfFlat, combinations, runningCapital, paramCounts, calls >>
  /\ UNCHANGED notWF

\* variant: runningCapital lives outside the function and is not assigned
\* at the start of a call
WFStartStaleCapital ==
  /\ wfPc = "start"
  /\ getStrategyById(wfConfig.strategyId) # NoStrategy
  /\ ~ BelowMinimum(wfBars)
  /\ roundedDown' \in SUBSET ExactFloors(wfBars, wfConfig.numWindows, wfConfig.trainRatio)
  /\ windows' = createWindows(wfBars, wfConfig.numWindows, wfConfig.trainRatio, roundedDown')
  /\ combinations' = generateParameterCombinations(getStrategyById(wfConfig.strategyId),
                                                    wfConfig.parameterRanges, {})
  /\ wfW' = 0
  /\ windowResults' = << >>
  /\ paramCounts' = NoParams
  /\ runningCapital' = IF wfRun = 1 THEN wfConfig.initialCapital ELSE runningCapital
  /\ wfPc' = "windows"
  /\ UNCHANGED << wfBars, wfConfig, backtestRuns, wfResult, wfFlat, calls >>
  /\ UNCHANGED notWF

\* lines 362-368: build the windows and the grid
WFStart ==
  /\ wfPc = "start"
  /\ getStrategyById(wfConfig.strategyId) # NoStrategy
  /\ ~ BelowMinimum(wfBars)
  /\ roundedDown' \in SUBSET ExactFloors(wfBars, wfConfig.numWindows, wfConfig.trainRatio)
  /\ windows' = createWindows(wfBars, wfConfig.numWindows, wfConfig.trainRatio, roundedDown')
  /\ combinations' = generateParameterCombinations(getStrategyById(wfConfig.strategyId),
                                                    wfConfig.parameterRanges, {})
  /\ wfW' = 0
  /\ windowResults' = << >>
  /\ paramCounts' = NoParams
  /\ runningCapital' = wfConfig.initialCapital
  /\ wfPc' = "windows"
  /\ UNCHANGED << wfBars, wfConfig, backtestRuns, wfResult, wfFlat, calls >>
  /\ UNCHANGED notWF

\* lines 371-431: one window: a backtest per combination on the training
\* slice, one on the test slice with the best combination, one WindowResult.
\* The slice bounds are bar indices.
WFWindow ==
  /\ wfPc = "windows"
  /\ wfW < Len(windows)
  /\ LET win == windows[wfW + 1]
         trainPeriods == win.trainEnd - win.trainStart
         testPeriods == win.testEnd - win.testStart
     IN  \E trainResults \in [1..Len(combinations) ->
                               Results(wfConfig.initialCapital, trainPeriods, wfConfig, wfFlat)] :
         \E testResult \in Results(runningCapital, testPeriods, wfConfig, wfFlat) :
           LET metrics == [j \in 1..Len(combinations) |->
                             getMetricValue(trainResults[j], wfConfig.optimizationMetric)]
               best == optimizeWindow(metrics, combinations)
           IN  /\ windowResults' = Append(windowResults,
                     [windowIndex |-> wfW,
                      trainStart |-> win.trainStart, trainEnd |-> win.trainEnd - 1,
                      testStart |-> win.testStart, testEnd |-> Min(win.testEnd - 1, wfBars - 1),
                      trainPeriods |-> trainPeriods,
                      testPeriods |-> testPeriods,
                      bestParams |-> best.bestParams,
                      trainMetric |-> best.bestMetric,
                      testMetric |-> getMetricValue(testResult, wfConfig.optimizationMetric),
                      testReturn |-> testResult.totalReturn,
                      testSharpe |-> testResult.sharpeRatio])
               /\ calls' = Append(calls,
                     [trainCapital |-> wfConfig.initialCapital,
                      trainMetrics |-> metrics,
                      testParams |-> best.bestParams,
                      testCapital |-> runningCapital,
                      testResult |-> testResult])
               /\ paramCounts' = TrackSelections(paramCounts, best.bestParams)
               /\ runningCapital' = NextRunningCapital(testResult, runningCapital)
  /\ backtestRuns' = backtestRuns + Len(combinations) + 1
  /\ wfW' = wfW + 1
  /\ UNCHANGED << wfBars, wfConfig, wfPc, windows, roundedDown, wfResult, wfFlat, combinations >>
  /\ UNCHANGED notWF

\* --- two calls in a row with the same arguments
NoFirst == [bars |-> 0, roundedDown |-> {}, windows |-> << >>, combinations |-> << >>,
            calls |-> << >>, result |-> Pending]

\* the inputs of the repeated call: moving prices, a grid of two thresholds
InitAgain ==
  /\ wfBars \in SearchBarCounts
  /\ wfFlat = FALSE
  /\ wfConfig \in [strategyId : OptRequestedIds, numWindows : {2},
                   trainRatio : {[n |-> 7, d |-> 10]},
                   optimizationMetric : {"sharpe", "profitFactor"},
                   initialCapital : {10000}, allowShorts : BOOLEAN,
                   transactionCost : {[n |-> 1, d |-> 10]}, parameterRanges : {TwoThresholds}]
  /\ WFEntry

\* the call has returned and runWalkForwardOptimization is called again with
\* the same data and config.  The locals of the first call are not touched
\* here: whatever the second call reads it must have assigned itself; the
\* record of the backtests made is started afresh.
WFCallAgain ==
  /\ wfPc = "done"
  /\ wfRun = 1
  /\ wfFirst' = [bars |-> wfBars, roundedDown |-> roundedDown, windows |-> windows,
                 combinations |-> combinations, calls |-> calls, result |-> wfResult]
  /\ wfRun' = 2
  /\ wfPc' = "start"
  /\ wfResult' = Pending
  /\ calls' = << >>
  /\ backtestRuns' = 0
  /\ UNCHANGED << wfBars, wfConfig, windows, wfW, windowResults, roundedDown, wfFlat,
                  combinations, runningCapital, paramCounts >>
  /\ UNCHANGED notWFTwice

\* Math.floor is a function: on the same arguments the second call takes the
\* same floors in createWindows
SameFloors == wfRun = 2 => roundedDown = wfFirst.roundedDown

\* runBacktest is a function of its arguments (part_008 lines 73-272 read and
\* write nothing but their arguments and locals): in the window just
\* processed by the second call, the training backtests return what they
\* returned in the first call if they are given the same slice and the same
\* combinations, and so does the test backtest if it is also given the same
\* parameters and the same capital
SameBacktests ==
  wfRun = 2 /\ calls # << >> =>
    LET w == Len(calls)
        sameTraining == /\ w <= Len(wfFirst.calls)
                        /\ windows[w] = wfFirst.windows[w]
                        /\ combinations = wfFirst.combinations
                        /\ calls[w].trainCapital = wfFirst.calls[w].trainCapital
        sameTest == /\ sameTraining
                    /\ calls[w].testParams = wfFirst.calls[w].testParams
                    /\ calls[w].testCapital = wfFirst.calls[w].testCapital
    IN  /\ sameTraining => calls[w].trainMetrics = wfFirst.calls[w].trainMetrics
        /\ sameTest => calls[w].testResult = wfFirst.calls[w].testResult

\* a sum of count numbers divided by count: NaN for count = 0
Average(count) == IF count = 0 THEN "NaN" ELSE "number"

\* lines 433-501: the aggregates, each a division by windowResults.length,
\* and the recommended parameters
WFFinish ==
  /\ wfPc = "windows"
  /\ wfW = Len(windows)
  /\ wfResult' = [returned |-> "result",
                  strategyId |-> wfConfig.strategyId,
                  strategyName |-> getStrategyById(wfConfig.strategyId).name,
                  avgTestReturn |-> Average(Len(windowResults)),
                  avgTestSharpe |-> Average(Len(windowResults)),
                  avgTestDrawdown |-> Average(Len(windowResults)),
                  avgTrainMetric |-> Average(Len(windowResults)),
                  avgTestMetric |-> Average(Len(windowResults)),
                  consistencyScore |-> Average(Len(windowResults)),
                  avgBuyHoldReturn |-> Average(Len(windowResults)),
                  winRateVsBuyHold |-> Average(Len(windowResults)),
                  recommendedParams |-> recommendedParams(paramCounts),
                  windowResults |-> windowResults]
  /\ wfPc' = "done"
  /\ UNCHANGED << wfBars, wfConfig, windows, wfW, windowResults, backtestRuns, roundedDown,
                  wfFlat, combinations, runningCapital, paramCounts, calls >>
  /\ UNCHANGED notWF

\* ------------------------------------------------ multi-strategy ranking
\* the aggregates of an OptimizationResult that the ranking reads
RunAggregates == [avgTestSharpe : {-1, 1, 2}, consistencyScore : {50, 100}, overfitRatio : {1, 3}]

\* lines 515-518: what runWalkForwardOptimization(data, {...baseConfig,
\* strategyId}) can return: null under the conditions of lines 352-360
OptimizationOutcomes(id, bars) ==
  IF getStrategyById(id) = NoStrategy \/ BelowMinimum(bars)
  THEN { Null }
  ELSE { [returned |-> "result", strategyId |-> id,
          strategyName |-> getStrategyById(id).name,
          avgTestSharpe |-> a.avgTestSharpe, consistencyScore |-> a.consistencyScore,
          overfitRatio |-> a.overfitRatio] : a \in RunAggregates }

\* line 530
Score(r) == Rat(r.avgTestSharpe * r.consistencyScore, r.overfitRatio + 1)

\* line 531: the sign of b.score - a.score
CompareScores(a, b) == Sign(b.score.n * a.score.d - a.score.n * b.score.d)

\* line 531: Array.prototype.sort is stable; an entry goes behind every
\* earlier entry that does not compare after it
InsertStable(sorted, x) ==
  LET n == Cardinality({ k \in 1..Len(sorted) : CompareScores(sorted[k], x) <= 0 })
  IN  SubSeq(sorted, 1, n) \o << x >> \o SubSeq(sorted, n + 1, Len(sorted))

RECURSIVE SortFrom(_, _, _)
SortFrom(entries, k, sorted) ==
  IF k > Len(entries) THEN sorted
  ELSE SortFrom(entries, k + 1, InsertStable(sorted, entries[k]))

\* lines 527-531
RankingOf(rs) ==
  SortFrom([k \in 1..Len(rs) |->
              [strategyId |-> rs[k].strategyId, strategyName |-> rs[k].strategyName,
               score |-> Score(rs[k])]], 1, << >>)

\* line 533: results.find(r => r.strategyId === ranking[0]?.strategyId) || null
BestOf(rs, rk) ==
  IF Len(rk) = 0 \/ ~ \E k \in 1..Len(rs) : rs[k].strategyId = rk[1].strategyId
  THEN Null
  ELSE rs[CHOOSE k \in 1..Len(rs) :
            /\ rs[k].strategyId = rk[1].strategyId
            /\ \A m \in 1..(k - 1) : rs[m].strategyId # rk[1].strategyId]

MaxRequested == 3

MaxForceBars == 27

MaxActiveBars == 2

RankedIds == {"hamilton", "ma_crossover", "macd", "no_such_strategy"}

\* the requested ids: up to MaxRequested different ids in any order
Requests ==
  UNION { { q \in [1..n -> RankedIds] : \A j, k \in 1..n : j # k => q[j] # q[k] }
          : n \in 0..MaxRequested }

InitMS ==
  /\ msBars \in {MinPeriods - 1, MinPeriods}
  /\ strategyIds \in Requests
  /\ msPc = "loop"
  /\ msK = 0
  /\ results = << >>
  /\ ranking = << >>
  /\ bestStrategy = Pending

\* lines 514-523: one strategy id
MSRun ==
  /\ msPc = "loop"
  /\ msK < Len(strategyIds)
  /\ \E r \in OptimizationOutcomes(strategyIds[msK + 1], msBars) :
       results' = IF r # Null THEN Append(results, r) ELSE results
  /\ msK' = msK + 1
  /\ UNCHANGED << msBars, strategyIds, msPc, ranking, bestStrategy >>
  /\ UNCHANGED notMS

\* lines 525-539: rank and return
MSRank ==
  /\ msPc = "loop"
  /\ msK = Len(strategyIds)
  /\ ranking' = RankingOf(results)
  /\ bestStrategy' = BestOf(results, ranking')
  /\ msPc' = "done"
  /\ UNCHANGED << msBars, strategyIds, msK, results >>
  /\ UNCHANGED notMS

\* ------------------------------------------------------ zone classifier
\* Forces and thresholds are in hundredths: 3000 is 30.
DEFAULT_THRESHOLD == 30 * 100

MaxForce == 100 * 100

\* an optional argument: << >> when left out, << x >> when given
Undefined == << >>

\* diagramLogic.ts 9-15
getThresholds(customThreshold) ==
  LET threshold == IF customThreshold = Undefined THEN DEFAULT_THRESHOLD ELSE customThreshold[1]
  IN  [STRONG_THRESHOLD |-> threshold, WEAK_THRESHOLD |-> -threshold]

\* lines 19, 23
Strong(x, th) == x > th.STRONG_THRESHOLD

\* variant: the bounds of the neutral class are excluded
NeutralOpen(x, th) == x > th.WEAK_THRESHOLD /\ x < th.STRONG_THRESHOLD

\* lines 20, 24
Neutral(x, th) == x >= th.WEAK_THRESHOLD /\ x <= th.STRONG_THRESHOLD

\* lines 21, 25
Weak(x, th) == x < th.WEAK_THRESHOLD

\* lines 27-73: the number of the return statement taken, 10 being the default
mapToPositionRule(demand, supply, customThreshold) ==
  LET th == getThresholds(customThreshold)
  IN  CASE Strong(demand, th) /\ Weak(supply, th)     -> 1
        [] Strong(demand, th) /\ Neutral(supply, th)  -> 2
        [] Strong(demand, th) /\ Strong(supply, th)   -> 3
        [] Neutral(demand, th) /\ Weak(supply, th)    -> 4
        [] Neutral(demand, th) /\ Neutral(supply, th) -> 5
        [] Neutral(demand, th) /\ Strong(supply, th)  -> 6
        [] Weak(demand, th) /\ Weak(supply, th)       -> 7
        [] Weak(demand, th) /\ Neutral(supply, th)    -> 8
        [] Weak(demand, th) /\ Strong(supply, th)     -> 9
        [] OTHER                                      -> 10

\* lines 29-73: the position each return statement returns
Returned ==
  << "FREE_RISE", "WEAK_BULL", "BEAR_RALLY", "CONSOLIDATION", "CHAOS", "DISTRIBUTION",
     "BULL_TRAP", "WEAK_BEAR", "FREE_FALL", "CHAOS" >>

\* lines 17-74
mapToPosition(demand, supply, customThreshold) ==
  Returned[mapToPositionRule(demand, supply, customThreshold)]

\* lines 76-99
generateSignal(pos) ==
  CASE pos = "FREE_RISE"     -> "LONG"
    [] pos = "WEAK_BULL"     -> "HOLD_LONG"
    [] pos = "BEAR_RALLY"    -> "EXIT_SHORT"
    [] pos = "CONSOLIDATION" -> "ACCUMULATE"
    [] pos = "CHAOS"         -> "WAIT"
    [] pos = "DISTRIBUTION"  -> "REDUCE"
    [] pos = "BULL_TRAP"     -> "EXIT_LONG"
    [] pos = "WEAK_BEAR"     -> "HOLD_SHORT"
    [] pos = "FREE_FALL"     -> "SHORT"
    [] OTHER                      -> "WAIT"

\* lines 101-123
getQualityAssessment(demand, supply) ==
  LET twiceAvgForce == Abs(demand) + Abs(supply)
  IN  IF twiceAvgForce > 2 * 5000 /\ Abs(demand - supply) > 4000 THEN "Healthy"
      ELSE IF twiceAvgForce > 2 * 6000 /\ Abs(demand - supply) < 2000 THEN "Warning"
      ELSE "Speculative"

\* lines 140-156
createTradingSignal(demand, supply, customThreshold) ==
  LET pos == mapToPosition(demand, supply, customThreshold)
  IN  [position |-> pos, action |-> generateSignal(pos),
       demand |-> demand, supply |-> supply,
       quality |-> getQualityAssessment(demand, supply)]

\* strategies.ts 264: the fallback of params.threshold || 30
HamiltonFallback == 30 * 100

\* variant: params.threshold is ignored
HamiltonThresholdFixed(params) == HamiltonFallback

\* strategies.ts 264: params.threshold || 30
HamiltonThreshold(params) ==
  IF "threshold" \in DOMAIN params /\ params["threshold"] # 0
  THEN params["threshold"] ELSE HamiltonFallback

\* strategies.ts 268-276: the signal of one bar
HamiltonSignal(bar, threshold) ==
  LET signal == createTradingSignal(bar.demand, bar.supply, << threshold >>)
  IN  IF signal.action = "LONG" \/ signal.action = "ACCUMULATE" THEN "BUY"
      ELSE IF signal.action = "SHORT" \/ signal.action = "EXIT_LONG" \/ signal.action = "REDUCE"
           THEN "SELL"
           ELSE "HOLD"

\* strategies.ts 263-280: calculate of the Hamilton strategy
HamiltonCalculate(bars, params) ==
  [j \in 1..Len(bars) |-> HamiltonSignal(bars[j], HamiltonThreshold(params))]

\* forces at and next to every multiple of 5 within [-100, 100]
ForceValues == { f \in -MaxForce..MaxForce : f % 500 \in {0, 1, 499} }

\* the declared values of the Hamilton threshold, and thresholds outside them
ThresholdValues ==
  { 1, 2 * MaxForce }
  \cup { getStrategyById("hamilton").parameters[1].min + k * getStrategyById("hamilton").parameters[1].step
         : k \in 0..8 }

InitZone ==
  /\ barDemand \in ForceValues
  /\ barSupply \in ForceValues
  /\ hamiltonParams \in {NoParams} \cup { ("threshold" :> t) : t \in ThresholdValues }
  /\ zonePc = "classify"
  /\ zoneRule = 0
  /\ tradingSignal = Pending
  /\ hamiltonSignals = << >>

\* createTradingSignal(demand, supply, params.threshold)
Classify ==
  /\ zonePc = "classify"
  /\ LET customThreshold == IF "threshold" \in DOMAIN hamiltonParams
                            THEN << hamiltonParams["threshold"] >> ELSE Undefined
     IN  /\ zoneRule' = mapToPositionRule(barDemand, barSupply, customThreshold)
         /\ tradingSignal' = createTradingSignal(barDemand, barSupply, customThreshold)
  /\ zonePc' = "strategy"
  /\ UNCHANGED << barDemand, barSupply, hamiltonParams, hamiltonSignals >>
  /\ UNCHANGED notZone

\* the Hamilton strategy's calculate on the one bar
Calculate ==
  /\ zonePc = "strategy"
  /\ hamiltonSignals' = HamiltonCalculate(<< [demand |-> barDemand, supply |-> barSupply] >>,
                                          hamiltonParams)
  /\ zonePc' = "done"
  /\ UNCHANGED << barDemand, barSupply, hamiltonParams, zoneRule, tradingSignal >>
  /\ UNCHANGED notZone

\* ------------------------------------------------------- force calculator
\* (utils/forceCalculator.ts, src/unnamed/part_009)
\*
\* A number of the force calculator is a quotient [n, d] as above: a rational
\* in lowest terms, or d = 0 for Infinity, -Infinity and NaN.  The operations
\* follow IEEE 754 on these values; rounding is not modelled and the two
\* zeros are not told apart (both only matter in front of clamp, which maps
\* Infinity and -Infinity to the same result).
NegInfinity == [n |-> -1, d |-> 0]

F(k) == [n |-> k, d |-> 1]

isNaN(x) == x.d = 0 /\ x.n = 0

isFinite(x) == x.d # 0

FNeg(a) == [n |-> -a.n, d |-> a.d]

FAdd(a, b) ==
  IF isNaN(a) \/ isNaN(b) THEN ZeroOverZero
  ELSE IF a.d = 0 /\ b.d = 0 THEN (IF a.n = b.n THEN a ELSE ZeroOverZero)
  ELSE IF a.d = 0 THEN a
  ELSE IF b.d = 0 THEN b
  ELSE RatAdd(a, b)

FSub(a, b) == FAdd(a, FNeg(b))

FMul(a, b) ==
  IF isNaN(a) \/ isNaN(b) THEN ZeroOverZero
  ELSE IF a.d = 0 \/ b.d = 0 THEN [n |-> Sign(a.n) * Sign(b.n), d |-> 0]
  ELSE Rat(a.n * b.n, a.d * b.d)

FDiv(a, b) ==
  IF isNaN(a) \/ isNaN(b) THEN ZeroOverZero
  ELSE IF a.d = 0
    THEN (IF b.d = 0 THEN ZeroOverZero
          ELSE [n |-> IF b.n < 0 THEN -a.n ELSE a.n, d |-> 0])
  ELSE IF b.d = 0 THEN RatZero
  ELSE Quotient(a, b)

\* a < b; false when either side is NaN
FLt(a, b) ==
  IF isNaN(a) \/ isNaN(b) THEN FALSE
  ELSE IF a.d = 0 THEN a.n < 0 /\ a # b
  ELSE IF b.d = 0 THEN b.n > 0
  ELSE a.n * b.d < b.n * a.d

FGt(a, b) == FLt(b, a)

\* a >= b; false when either side is NaN
FGe(a, b) == ~isNaN(a) /\ ~isNaN(b) /\ ~FLt(a, b)

\* a === b; false when either side is NaN
FEq(a, b) == ~isNaN(a) /\ ~isNaN(b) /\ a = b

MathAbs(a) == [n |-> Abs(a.n), d |-> a.d]

MathMax(a, b) ==
  IF isNaN(a) \/ isNaN(b) THEN ZeroOverZero ELSE IF FLt(a, b) THEN b ELSE a

MathMin(a, b) ==
  IF isNaN(a) \/ isNaN(b) THEN ZeroOverZero ELSE IF FLt(b, a) THEN b ELSE a

\* Math.log10 on the arguments the model's volumes produce (volume + 1)
log10(x) ==
  CASE x = F(10) -> F(1)
    [] x = F(100) -> F(2)
    [] x = Infinity -> Infinity
    [] isNaN(x) -> ZeroOverZero

\* lines 328-334 without the guard of line 330
clampUnguarded(value, min, max) == MathMax(min, MathMin(max, value))

\* lines 328-334
clamp(value, min, max) ==
  IF isNaN(value) \/ ~isFinite(value) THEN F(0)
  ELSE MathMax(min, MathMin(max, value))

\* { ...item, demand, supply }
MarketData(item, demand, supply) ==
  [date |-> item.date, open |-> item.open, high |-> item.high,
   low |-> item.low, close |-> item.close, volume |-> item.volume,
   demand |-> demand, supply |-> supply]

\* the guard one step short
InWarmUpShort(index, period) == index < period - 1

\* lines 42, 134, 222, 281: if (index < period)
InWarmUp(index, period) == index < period

\* sum += arr[j] for j = lo .. hi, from acc; a sum that is NaN stays NaN
RECURSIVE SumRange(_, _, _, _)
SumRange(arr, acc, lo, hi) ==
  IF lo > hi \/ isNaN(acc) THEN acc
  ELSE SumRange(arr, FAdd(acc, arr[lo]), lo + 1, hi)

\* the volume column, indexed from 0 as in the code
Volumes(bars) == [j \in 0..Len(bars) - 1 |-> bars[j + 1].volume]

\* --- Method A, lines 24-73
MethodA_period == 14

\* line 31
typicalPrices(bars) ==
  [j \in 0..Len(bars) - 1 |->
     FDiv(FAdd(FAdd(bars[j + 1].high, bars[j + 1].low), bars[j + 1].close), F(3))]

\* lines 34-38
rawMoneyFlows(bars) ==
  LET tp == typicalPrices(bars)
  IN  [j \in 0..Len(bars) - 1 |->
         LET prevTypicalPrice == IF j > 0 THEN tp[j - 1] ELSE tp[j]
             rawMF == FMul(tp[j], bars[j + 1].volume)
         IN  IF FGe(tp[j], prevTypicalPrice) THEN rawMF ELSE FNeg(rawMF)]

\* lines 47-56: the positive flows and the absolute negative flows
PositivePart(flows) ==
  [j \in DOMAIN flows |-> IF FGt(flows[j], F(0)) THEN flows[j] ELSE F(0)]

NegativePart(flows) ==
  [j \in DOMAIN flows |-> IF FGt(flows[j], F(0)) THEN F(0) ELSE MathAbs(flows[j])]

\* lines 47-65: demand and supply before the clamp
MethodAForces(bars, index) ==
  LET flows == rawMoneyFlows(bars)
      positiveMF == SumRange(PositivePart(flows), F(0), index - MethodA_period + 1, index)
      negativeMF == SumRange(NegativePart(flows), F(0), index - MethodA_period + 1, index)
      mfRatio == IF FEq(negativeMF, F(0)) THEN F(100) ELSE FDiv(positiveMF, negativeMF)
      mfi == FSub(F(100), FDiv(F(100), FAdd(F(1), mfRatio)))
  IN  [demand |-> FMul(FSub(mfi, F(50)), F(2)),
       supply |-> FMul(FSub(F(50), mfi), F(2))]

\* --- Method B, lines 77-156
lookback == 20

NoPressure == [demand |-> F(0), supply |-> F(0)]

\* lines 84-129: what the first pass pushes for the bar at index
rawPressure(bars, index) ==
  IF index = 0 THEN NoPressure
  ELSE
    LET item == bars[index + 1]
        prev == bars[index]
        priceRange == FSub(item.high, item.low)
        priceChangePercent ==
          FMul(FDiv(FSub(item.close, prev.close), prev.close), F(100))
        clv == FDiv(FSub(FSub(item.close, item.low), FSub(item.high, item.close)),
                    priceRange)
        volumeFactor == IF FGt(item.volume, F(0))
                          THEN log10(FAdd(item.volume, F(1))) ELSE F(1)
        momentum == FMul(FMul(clv, MathAbs(priceChangePercent)), volumeFactor)
    IN  IF FEq(prev.close, F(0)) \/ isNaN(prev.close) THEN NoPressure
        ELSE IF FEq(priceRange, F(0)) \/ isNaN(priceRange) THEN NoPressure
        ELSE IF isNaN(momentum) THEN NoPressure
        ELSE IF FGe(priceChangePercent, F(0))
          THEN [demand |-> momentum, supply |-> FMul(FNeg(momentum), Rat(3, 10))]
        ELSE [demand |-> FMul(momentum, Rat(3, 10)), supply |-> FNeg(momentum)]

rawDemands(bars) == [j \in 0..Len(bars) - 1 |-> rawPressure(bars, j).demand]

rawSupplies(bars) == [j \in 0..Len(bars) - 1 |-> rawPressure(bars, j).supply]

\* lines 142-145: acc = Math.max(acc, Math.abs(arr[j])) for j = lo .. hi; a
\* maximum that is NaN stays NaN
RECURSIVE MaxAbsRange(_, _, _, _)
MaxAbsRange(arr, acc, lo, hi) ==
  IF lo > hi \/ isNaN(acc) THEN acc
  ELSE MaxAbsRange(arr, MathMax(acc, MathAbs(arr[lo])), lo + 1, hi)

\* lines 139-148: demand and supply before the clamp
MethodBForces(bars, index) ==
  LET rd == rawDemands(bars)
      rs == rawSupplies(bars)
      maxDemand == MaxAbsRange(rd, Rat(1, 1000), index - lookback + 1, index)
      maxSupply == MaxAbsRange(rs, Rat(1, 1000), index - lookback + 1, index)
  IN  [demand |-> FMul(FDiv(rd[index], maxDemand), F(100)),
       supply |-> FMul(FDiv(rs[index], maxSupply), F(100))]

\* --- Method C, lines 160-255
rsiPeriod == 14

volumePeriod == 10

\* lines 168-177
gainsOf(bars) ==
  [j \in 0..Len(bars) - 1 |->
     IF j = 0 THEN F(0)
     ELSE MathMax(F(0), FSub(bars[j + 1].close, bars[j].close))]

lossesOf(bars) ==
  [j \in 0..Len(bars) - 1 |->
     IF j = 0 THEN F(0)
     ELSE MathMax(F(0), FNeg(FSub(bars[j + 1].close, bars[j].close)))]

\* lines 199-203: the smoothing steps from the average avg at index j up to
\* index; an average that is NaN stays NaN
RECURSIVE SmoothFrom(_, _, _, _)
SmoothFrom(arr, avg, j, index) ==
  IF j >= index \/ isNaN(avg) THEN avg
  ELSE SmoothFrom(arr,
                  FDiv(FAdd(FMul(avg, F(rsiPeriod - 1)), arr[j + 1]), F(rsiPeriod)),
                  j + 1, index)

\* lines 183-204: the average of arr at index (SMA first, then smoothing)
Smoothed(arr, index) ==
  IF index < rsiPeriod THEN F(0)
  ELSE SmoothFrom(arr, FDiv(SumRange(arr, F(0), 1, rsiPeriod), F(rsiPeriod)),
                  rsiPeriod, index)

\* lines 207-219
volumeRatio(bars, index) ==
  IF index < volumePeriod THEN F(1)
  ELSE LET sumVolume == SumRange(Volumes(bars), F(0), index - volumePeriod, index - 1)
           avgVolume == FDiv(sumVolume, F(volumePeriod))
       IN  IF FGt(avgVolume, F(0)) THEN FDiv(bars[index + 1].volume, avgVolume)
           ELSE F(1)

\* lines 227-247: demand and supply before the clamp
MethodCForces(bars, index) ==
  LET avgGain == Smoothed(gainsOf(bars), index)
      avgLoss == Smoothed(lossesOf(bars), index)
      rs == IF FEq(avgLoss, F(0)) THEN F(100) ELSE FDiv(avgGain, avgLoss)
      rsi == FSub(F(100), FDiv(F(100), FAdd(F(1), rs)))
      volumeConfirm == MathMin(F(2), MathMax(Rat(1, 2), volumeRatio(bars, index)))
      rsiCentered == FSub(rsi, F(50))
  IN  IF FGe(rsiCentered, F(0))
        THEN [demand |-> FMul(FMul(FDiv(rsiCentered, F(50)), F(100)), volumeConfirm),
              supply |-> FMul(FNeg(FDiv(rsiCentered, F(50))), F(50))]
      ELSE [supply |-> FMul(FMul(FDiv(FNeg(rsiCentered), F(50)), F(100)), volumeConfirm),
            demand |-> FMul(FDiv(rsiCentered, F(50)), F(50))]

\* --- Method D, lines 259-325
MethodD_period == 21

\* lines 265-278
mfVolumes(bars) ==
  [j \in 0..Len(bars) - 1 |->
     LET item == bars[j + 1]
         priceRange == FSub(item.high, item.low)
         mfm == FDiv(FSub(FSub(item.close, item.low), FSub(item.high, item.close)),
                     priceRange)
     IN  IF FEq(priceRange, F(0)) THEN F(0) ELSE FMul(mfm, item.volume)]

\* lines 286-295 and 300-306: sum of MF volume over sum of volume, lo .. hi
CMF(bars, lo, hi) ==
  LET sumMFV == SumRange(mfVolumes(bars), F(0), lo, hi)
      sumVolume == SumRange(Volumes(bars), F(0), lo, hi)
  IN  IF FEq(sumVolume, F(0)) THEN F(0) ELSE FDiv(sumMFV, sumVolume)

\* lines 286-317: demand and supply before the clamp
MethodDForces(bars, index) ==
  LET cmf == CMF(bars, index - MethodD_period + 1, index)
      prevCMF == IF index >= MethodD_period + 5
                   THEN CMF(bars, index - MethodD_period - 4, index - 5)
                 ELSE F(0)
      cmfChange == FSub(cmf, prevCMF)
      momentumBoost == FAdd(F(1), FMul(MathAbs(cmfChange), F(5)))
  IN  [demand |-> FMul(FMul(cmf, F(100)), momentumBoost),
       supply |-> FMul(FMul(FNeg(cmf), F(100)), momentumBoost)]

\* --- the second pass shared by the four methods
\* lines 41-72, 133-155, 221-254, 280-324: data.map((item, index) => ...)
SecondPass(bars, period, forcesAt) ==
  [k \in 1..Len(bars) |->
     IF InWarmUp(k - 1, period) THEN MarketData(bars[k], F(0), F(0))
     ELSE LET f == forcesAt[k - 1]
          IN  MarketData(bars[k], clamp(f.demand, F(-100), F(100)),
                                  clamp(f.supply, F(-100), F(100)))]

calculateMethodA(bars) ==
  SecondPass(bars, MethodA_period,
             [index \in 0..Len(bars) - 1 |-> MethodAForces(bars, index)])

calculateMethodB(bars) ==
  SecondPass(bars, lookback,
             [index \in 0..Len(bars) - 1 |-> MethodBForces(bars, index)])

calculateMethodC(bars) ==
  SecondPass(bars, rsiPeriod,
             [index \in 0..Len(bars) - 1 |-> MethodCForces(bars, index)])

calculateMethodD(bars) ==
  SecondPass(bars, MethodD_period,
             [index \in 0..Len(bars) - 1 |-> MethodDForces(bars, index)])

\* lines 3-19
calculateForces(bars, method) ==
  CASE method = "A" -> calculateMethodA(bars)
    [] method = "B" -> calculateMethodB(bars)
    [] method = "C" -> calculateMethodC(bars)
    [] method = "D" -> calculateMethodD(bars)
    [] OTHER -> calculateMethodB(bars)

\* --- inputs
OHLCV(o, h, l, c, v) ==
  [open |-> o, high |-> h, low |-> l, close |-> c, volume |-> v]

\* a rising bar, a falling bar, a bar without range, a bar without volume, a
\* bar closing at zero, and bars whose volume or close is not a finite number
BarKinds ==
  { OHLCV(F(10), F(12), F(9), F(11), F(9)),
    OHLCV(F(11), F(11), F(8), F(9), F(99)),
    OHLCV(F(10), F(10), F(10), F(10), F(9)),
    OHLCV(F(10), F(11), F(9), F(10), F(0)),
    OHLCV(F(1), F(1), F(0), F(0), F(9)),
    OHLCV(F(10), F(12), F(9), F(11), ZeroOverZero),
    OHLCV(F(10), F(12), F(9), ZeroOverZero, F(9)),
    OHLCV(F(10), F(12), F(9), Infinity, F(9)) }

Dated(date, bar) ==
  [date |-> date, open |-> bar.open, high |-> bar.high, low |-> bar.low,
   close |-> bar.close, volume |-> bar.volume]

\* n bars: one kind repeated, then two bars of any kind
Series(n, p, t1, t2) ==
  [k \in 1..n |->
     Dated(BaseDate + k, IF k = n THEN t2 ELSE IF k = n - 1 THEN t1 ELSE p)]

Methods == {"A", "B", "C", "D"}

\* no bar, one bar, and the lengths from the shortest warm-up on
Lengths == {0, 1} \cup (MethodA_period - 1)..MaxForceBars

InitForce ==
  /\ \E n \in Lengths, p \in BarKinds, t1 \in BarKinds, t2 \in BarKinds :
       fcData = Series(n, p, t1, t2)
  /\ fcMethod \in Methods
  /\ fcPc = "call"
  /\ fcResult = << >>

\* calculateForces(data, method) with the given method
Forces(method) ==
  /\ fcPc = "call"
  /\ fcMethod = method
  /\ fcResult' = calculateForces(fcData, method)
  /\ fcPc' = "done"
  /\ UNCHANGED << fcData, fcMethod >>
  /\ UNCHANGED notForce

\* ----------------------------------------------------------- strategies
\* (utils/strategies.ts: src/unnamed/part_005, and its earlier version
\* src/unnamed/part_006)
\*
\* The registry of part_006, in the format of strategies above.
strategies_part_006 ==
  <<
     [id |-> "hamilton", name |-> "Hamilton Diagram",
      parameters |->
       << [id |-> "threshold", min |-> 1000, max |-> 5000, step |-> 500] >>],
     [id |-> "ma_crossover", name |-> "Moving Average Crossover",
      parameters |->
       << [id |-> "fastPeriod", min |-> 500, max |-> 5000, step |-> 500],
          [id |-> "slowPeriod", min |-> 2000, max |-> 20000, step |-> 1000] >>],
     [id |-> "rsi_reversion", name |-> "RSI Mean Reversion",
      parameters |->
       << [id |-> "period", min |-> 500, max |-> 3000, step |-> 100],
          [id |-> "oversold", min |-> 1000, max |-> 4000, step |-> 500],
          [id |-> "overbought", min |-> 6000, max |-> 9000, step |-> 500] >>],
     [id |-> "macd", name |-> "MACD Crossover",
      parameters |->
       << [id |-> "fastPeriod", min |-> 500, max |-> 2000, step |-> 100],
          [id |-> "slowPeriod", min |-> 1500, max |-> 4000, step |-> 100],
          [id |-> "signalPeriod", min |-> 500, max |-> 1500, step |-> 100] >>],
     [id |-> "bollinger", name |-> "Bollinger Bands",
      parameters |->
       << [id |-> "period", min |-> 1000, max |-> 5000, step |-> 500],
          [id |-> "stdDev", min |-> 100, max |-> 300, step |-> 50] >>],
     [id |-> "adx_trend", name |-> "ADX Trend Following",
      parameters |->
       << [id |-> "period", min |-> 700, max |-> 2800, step |-> 100],
          [id |-> "threshold", min |-> 1500, max |-> 4000, step |-> 500] >>],
     [id |-> "breakout", name |-> "Donchian Breakout",
      parameters |->
       << [id |-> "period", min |-> 1000, max |-> 5500, step |-> 500] >>],
     [id |-> "triple_ma", name |-> "Triple Moving Average",
      parameters |->
       << [id |-> "shortPeriod", min |-> 500, max |-> 2000, step |-> 100],
          [id |-> "mediumPeriod", min |-> 1500, max |-> 5000, step |-> 500],
          [id |-> "longPeriod", min |-> 3000, max |-> 20000, step |-> 1000] >>],
     [id |-> "rsi_macd_combo", name |-> "RSI + MACD Combo",
      parameters |->
       << [id |-> "rsiPeriod", min |-> 700, max |-> 2100, step |-> 100],
          [id |-> "rsiOversold", min |-> 2000, max |-> 4500, step |-> 500],
          [id |-> "rsiOverbought", min |-> 5500, max |-> 8000, step |-> 500] >>],
     [id |-> "mean_reversion_vol", name |-> "Mean Reversion + Vol Filter",
      parameters |->
       << [id |-> "maPeriod", min |-> 1000, max |-> 5000, step |-> 500],
          [id |-> "atrPeriod", min |-> 700, max |-> 2100, step |-> 100],
          [id |-> "deviations", min |-> 100, max |-> 300, step |-> 50] >>] >>

Registries == {"part_005", "part_006"}

RegistryOf(reg) == IF reg = "part_005" THEN strategies ELSE strategies_part_006

\* the literal after || in "const x = params.x || literal" of a calculate
Fallback(reg, id, name) ==
  CASE id = "hamilton" -> 30
    [] id = "ma_crossover" /\ name = "fastPeriod" -> IF reg = "part_005" THEN 10 ELSE 20
    [] id = "ma_crossover" /\ name = "slowPeriod" -> IF reg = "part_005" THEN 30 ELSE 50
    [] id = "macd" /\ name = "fastPeriod" -> 12
    [] id = "macd" /\ name = "slowPeriod" -> 26
    [] id = "macd" /\ name = "signalPeriod" -> 9
    [] id = "adx_trend" /\ name = "period" -> 14
    [] id = "donchian_breakout" /\ name = "entryPeriod" -> 20
    [] id = "donchian_breakout" /\ name = "exitPeriod" -> 10
    [] id = "dual_momentum" /\ name = "lookback" -> 200
    [] id = "tsmom" /\ name = "lookback" -> 200
    [] id = "keltner_breakout" /\ name = "emaPeriod" -> 20
    [] id = "keltner_breakout" /\ name = "atrPeriod" -> 14
    [] id = "supertrend" /\ name = "period" -> 10
    [] id = "volatility_breakout" /\ name = "atrPeriod" -> 14
    [] id = "volume_breakout" /\ name = "breakoutPeriod" -> 20
    [] id = "volume_breakout" /\ name = "volumePeriod" -> 20
    [] id = "trend_strength" /\ name = "trendPeriod" -> 200
    [] id = "trend_strength" /\ name = "adxPeriod" -> 14
    [] id = "rsi_reversion" /\ name = "period" -> 14
    [] id = "bollinger" /\ name = "period" -> 20
    [] id = "breakout" /\ name = "period" -> 20
    [] id = "triple_ma" /\ name = "shortPeriod" -> 10
    [] id = "triple_ma" /\ name = "mediumPeriod" -> 20
    [] id = "triple_ma" /\ name = "longPeriod" -> 50
    [] id = "mean_reversion_vol" /\ name = "maPeriod" -> 20
    [] id = "mean_reversion_vol" /\ name = "atrPeriod" -> 14

\* params.name || literal, as a whole number of bars (params are in hundredths)
Period(reg, id, params, name) ==
  IF name \in DOMAIN params /\ params[name] # 0
    THEN params[name] \div 100
    ELSE Fallback(reg, id, name)

\* --- where the indicator arrays hold NaN (prices being finite numbers)
\* calculateSMA, part_005 36 and part_006 33: if (i < period - 1) push(NaN)
smaIsNaN(period, idx) == idx < period - 1

\* calculateEMA, part_005 51 and part_006 48
emaIsNaN(period, idx) == idx < period - 1

\* calculateATR, part_005 104
atrIsNaN(period, idx) == idx < period - 1

\* calculateMACD, part_005 68: fast - slowEMA[i]
macdIsNaN(fastPeriod, slowPeriod, idx) ==
  emaIsNaN(fastPeriod, idx) \/ emaIsNaN(slowPeriod, idx)

\* calculateMACD, part_005 69-81: the EMA of the macd values that are not
\* NaN, moved back to the index of the value it belongs to
signalIsNaN(fastPeriod, slowPeriod, signalPeriod, idx) ==
  LET first == IF fastPeriod > slowPeriod THEN fastPeriod - 1 ELSE slowPeriod - 1
  IN  macdIsNaN(fastPeriod, slowPeriod, idx) \/ emaIsNaN(signalPeriod, idx - first)

\* calculateADX, part_005 144-152: the DI and dx values are numbers at every
\* index (0 where the smoothed range is NaN), adx is their EMA
adxIsNaN(period, idx) == emaIsNaN(period, idx)

\* calculateKeltnerChannel, part_005 167
keltnerIsNaN(emaPeriod, atrPeriod, idx) ==
  emaIsNaN(emaPeriod, idx) \/ atrIsNaN(atrPeriod, idx)

\* calculateBollingerBands, part_006 134
bandsAreNaN(period, idx) == idx < period - 1

\* calculateSupertrend, part_005 186-189 and 196-239: 0, or 1 / -1
direction(period, idx, bullish) ==
  IF idx < period \/ atrIsNaN(period, idx) THEN 0
  ELSE IF bullish THEN 1 ELSE -1

\* --- the data of one bar, as far as a strategy looks at it: the forces for
\* the Hamilton strategy, and for the others the outcome of each comparison
\* the loop body makes on the bar's prices, volume and indicator values
HamiltonForces == {-50 * 100, 0, 50 * 100}

BarFacts(id) ==
  CASE id = "hamilton" -> [demand : HamiltonForces, supply : HamiltonForces]
    [] id = "ma_crossover" -> [fastAbove : BOOLEAN]
    [] id = "macd" -> [macdAbove : BOOLEAN]
    [] id = "adx_trend" -> [strongTrend : BOOLEAN, bullish : BOOLEAN]
    [] id = "donchian_breakout" -> [aboveEntryUpper : BOOLEAN, belowExitLower : BOOLEAN]
    [] id = "dual_momentum" ->
         { f \in [absoluteMomentum : BOOLEAN, relativeMomentum : BOOLEAN] :
             f.relativeMomentum => f.absoluteMomentum }
    [] id = "tsmom" -> [positive : BOOLEAN]
    [] id = "keltner_breakout" ->
         { f \in [aboveUpper : BOOLEAN, belowMiddle : BOOLEAN] :
             ~(f.aboveUpper /\ f.belowMiddle) }
    [] id = "supertrend" -> [bullish : BOOLEAN]
    [] id = "volatility_breakout" ->
         [highAbove : BOOLEAN, lowBelow : BOOLEAN, closeBelowTrail : BOOLEAN]
    [] id = "volume_breakout" ->
         { f \in [aboveUpper : BOOLEAN, highVolume : BOOLEAN, belowLower : BOOLEAN] :
             ~(f.aboveUpper /\ f.belowLower) }
    [] id = "trend_strength" ->
         [aboveTrend : BOOLEAN, strongTrend : BOOLEAN, bullishDI : BOOLEAN,
          belowStop : BOOLEAN]
    [] id = "rsi_reversion" ->
         { f \in [belowOversold : BOOLEAN, aboveOverbought : BOOLEAN] :
             ~(f.belowOversold /\ f.aboveOverbought) }
    [] id = "bollinger" ->
         { f \in [aboveLower : BOOLEAN, belowUpper : BOOLEAN] :
             f.aboveLower \/ f.belowUpper }
    [] id = "breakout" ->
         { f \in [aboveUpper : BOOLEAN, prevAtOrBelowUpper : BOOLEAN,
                  belowLower : BOOLEAN, prevAtOrAboveLower : BOOLEAN] :
             ~(f.aboveUpper /\ f.belowLower) }
    [] id = "triple_ma" ->
         { f \in [bullish : BOOLEAN, bearish : BOOLEAN] : ~(f.bullish /\ f.bearish) }
    [] id = "rsi_macd_combo" ->
         { f \in [rsiLow : BOOLEAN, rsiHigh : BOOLEAN, macdBullish : BOOLEAN,
                  macdBearish : BOOLEAN] :
             ~(f.rsiLow /\ f.rsiHigh) /\ ~(f.macdBullish /\ f.macdBearish) }
    [] id = "mean_reversion_vol" ->
         { f \in [lowVol : BOOLEAN, belowLower : BOOLEAN, aboveUpper : BOOLEAN] :
             ~(f.belowLower /\ f.aboveUpper) }

\* --- the guard in front of a loop body: if (...) { signals.push('HOLD'); continue; }
Holds(reg, id, params, idx) ==
  CASE id = "hamilton" -> FALSE
    [] id = "ma_crossover" ->
         \/ idx < Period(reg, id, params, "slowPeriod")
         \/ emaIsNaN(Period(reg, id, params, "fastPeriod"), idx)
         \/ emaIsNaN(Period(reg, id, params, "slowPeriod"), idx)
    [] id = "macd" ->
         LET fastPeriod == Period(reg, id, params, "fastPeriod")
             slowPeriod == Period(reg, id, params, "slowPeriod")
             signalPeriod == Period(reg, id, params, "signalPeriod")
         IN  \/ idx < slowPeriod + signalPeriod
             \/ macdIsNaN(fastPeriod, slowPeriod, idx)
             \/ signalIsNaN(fastPeriod, slowPeriod, signalPeriod, idx)
    [] id = "adx_trend" ->
         \/ idx < Period(reg, id, params, "period") * 2
         \/ adxIsNaN(Period(reg, id, params, "period"), idx)
    [] id = "donchian_breakout" -> idx < Period(reg, id, params, "entryPeriod")
    [] id = "dual_momentum" -> idx < Period(reg, id, params, "lookback")
    [] id = "tsmom" -> idx < Period(reg, id, params, "lookback")
    [] id = "keltner_breakout" ->
         keltnerIsNaN(Period(reg, id, params, "emaPeriod"),
                      Period(reg, id, params, "atrPeriod"), idx)
    [] id = "supertrend" ->
         \/ idx < Period(reg, id, params, "period") + 1
         \/ direction(Period(reg, id, params, "period"), idx, TRUE) = 0
    [] id = "volatility_breakout" ->
         \/ idx < Period(reg, id, params, "atrPeriod")
         \/ atrIsNaN(Period(reg, id, params, "atrPeriod"), idx - 1)
    [] id = "volume_breakout" ->
         LET breakoutPeriod == Period(reg, id, params, "breakoutPeriod")
             volumeMAPeriod == Period(reg, id, params, "volumePeriod")
         IN  idx < (IF breakoutPeriod > volumeMAPeriod THEN breakoutPeriod
                    ELSE volumeMAPeriod)
    [] id = "trend_strength" ->
         \/ idx < Period(reg, id, params, "trendPeriod")
         \/ emaIsNaN(Period(reg, id, params, "trendPeriod"), idx)
         \/ adxIsNaN(Period(reg, id, params, "adxPeriod"), idx)
    [] id = "rsi_reversion" -> idx < Period(reg, id, params, "period")
    [] id = "bollinger" ->
         \/ idx < Period(reg, id, params, "period")
         \/ bandsAreNaN(Period(reg, id, params, "period"), idx)
    [] id = "breakout" -> idx < Period(reg, id, params, "period")
    [] id = "triple_ma" ->
         \/ idx < Period(reg, id, params, "longPeriod")
         \/ emaIsNaN(Period(reg, id, params, "longPeriod"), idx)
    [] id = "rsi_macd_combo" ->
         \/ idx < 35
         \/ macdIsNaN(12, 26, idx)
         \/ signalIsNaN(12, 26, 9, idx)
    [] id = "mean_reversion_vol" ->
         \/ idx < 70
         \/ smaIsNaN(Period(reg, id, params, "maPeriod"), idx)
         \/ atrIsNaN(Period(reg, id, params, "atrPeriod"), idx)

\* --- the rest of a loop body: the signal pushed for the bar at idx and the
\* value of inPosition after it.  prev and cur are the facts of the bars
\* idx - 1 and idx; a comparison with an array value that is NaN is false.
Pushed(signal, inPosition) == [signal |-> signal, inPosition |-> inPosition]

\* if (!prevAbove && currAbove) BUY else if (prevAbove && !currAbove) SELL
Crossing(prevAbove, currAbove) ==
  IF ~prevAbove /\ currAbove THEN "BUY"
  ELSE IF prevAbove /\ ~currAbove THEN "SELL"
  ELSE "HOLD"

\* variant: an entry is signalled whether or not a position is held
EnterExitUntracked(enter, exit, inPos) ==
  IF enter THEN Pushed("BUY", TRUE)
  ELSE IF exit /\ inPos THEN Pushed("SELL", FALSE)
  ELSE Pushed("HOLD", inPos)

\* if (enter && !inPosition) BUY else if (exit && inPosition) SELL else HOLD
EnterExit(enter, exit, inPos) ==
  IF enter /\ ~inPos THEN Pushed("BUY", TRUE)
  ELSE IF exit /\ inPos THEN Pushed("SELL", FALSE)
  ELSE Pushed("HOLD", inPos)

Decide(reg, id, params, idx, prev, cur, inPos) ==
  CASE id = "hamilton" ->
         Pushed(HamiltonSignal(cur, HamiltonThreshold(params)), inPos)
    [] id = "ma_crossover" ->
         LET prevFastAbove ==
               /\ ~emaIsNaN(Period(reg, id, params, "fastPeriod"), idx - 1)
               /\ ~emaIsNaN(Period(reg, id, params, "slowPeriod"), idx - 1)
               /\ prev.fastAbove
         IN  Pushed(Crossing(prevFastAbove, cur.fastAbove), inPos)
    [] id = "macd" ->
         LET prevAbove ==
               /\ ~signalIsNaN(Period(reg, id, params, "fastPeriod"),
                               Period(reg, id, params, "slowPeriod"),
                               Period(reg, id, params, "signalPeriod"), idx - 1)
               /\ prev.macdAbove
         IN  Pushed(Crossing(prevAbove, cur.macdAbove), inPos)
    [] id = "adx_trend" ->
         Pushed(IF cur.strongTrend /\ cur.bullish /\ ~prev.bullish THEN "BUY"
                ELSE IF cur.strongTrend /\ ~cur.bullish /\ prev.bullish THEN "SELL"
                ELSE "HOLD", inPos)
    [] id = "donchian_breakout" ->
         EnterExit(cur.aboveEntryUpper, cur.belowExitLower, inPos)
    [] id = "dual_momentum" ->
         LET lookbackPeriod == Period(reg, id, params, "lookback")
             prevBoth == idx > lookbackPeriod /\ prev.absoluteMomentum
                         /\ prev.relativeMomentum
             both == cur.absoluteMomentum /\ cur.relativeMomentum
         IN  Pushed(IF both /\ ~prevBoth THEN "BUY"
                    ELSE IF ~both /\ prevBoth THEN "SELL"
                    ELSE "HOLD", inPos)
    [] id = "tsmom" ->
         LET prevPositive == idx > Period(reg, id, params, "lookback") /\ prev.positive
         IN  Pushed(IF cur.positive /\ ~prevPositive THEN "BUY"
                    ELSE IF ~cur.positive /\ prevPositive THEN "SELL"
                    ELSE "HOLD", inPos)
    [] id = "keltner_breakout" ->
         LET prevAtOrBelowUpper ==
               /\ idx > 0
               /\ ~keltnerIsNaN(Period(reg, id, params, "emaPeriod"),
                                Period(reg, id, params, "atrPeriod"), idx - 1)
               /\ ~prev.aboveUpper
         IN  EnterExit(cur.aboveUpper /\ prevAtOrBelowUpper, cur.belowMiddle, inPos)
    [] id = "supertrend" ->
         LET period == Period(reg, id, params, "period")
             now == direction(period, idx, cur.bullish)
             before == direction(period, idx - 1, prev.bullish)
         IN  Pushed(IF now = 1 /\ before = -1 THEN "BUY"
                    ELSE IF now = -1 /\ before = 1 THEN "SELL"
                    ELSE "HOLD", inPos)
    [] id = "volatility_breakout" ->
         IF cur.highAbove /\ ~inPos THEN Pushed("BUY", TRUE)
         ELSE IF inPos /\ cur.lowBelow THEN Pushed("SELL", FALSE)
         ELSE IF inPos /\ cur.closeBelowTrail THEN Pushed("SELL", FALSE)
         ELSE Pushed("HOLD", inPos)
    [] id = "volume_breakout" ->
         EnterExit(cur.aboveUpper /\ cur.highVolume, cur.belowLower, inPos)
    [] id = "trend_strength" ->
         IF cur.aboveTrend /\ cur.strongTrend /\ cur.bullishDI /\ ~inPos
           THEN Pushed("BUY", TRUE)
         ELSE IF inPos
           THEN (IF cur.belowStop \/ ~cur.aboveTrend THEN Pushed("SELL", FALSE)
                 ELSE Pushed("HOLD", inPos))
         ELSE Pushed("HOLD", inPos)
    [] id = "rsi_reversion" ->
         LET period == Period(reg, id, params, "period")
             prevBelow == idx - 1 >= period /\ prev.belowOversold
             prevAbove == idx - 1 >= period /\ prev.aboveOverbought
         IN  Pushed(IF cur.belowOversold /\ ~prevBelow THEN "BUY"
                    ELSE IF cur.aboveOverbought /\ ~prevAbove THEN "SELL"
                    ELSE "HOLD", inPos)
    [] id = "bollinger" ->
         Pushed(IF ~prev.aboveLower /\ cur.aboveLower THEN "BUY"
                ELSE IF ~prev.belowUpper /\ cur.belowUpper THEN "SELL"
                ELSE "HOLD", inPos)
    [] id = "breakout" ->
         LET period == Period(reg, id, params, "period")
         IN  Pushed(IF cur.aboveUpper /\ idx > period /\ cur.prevAtOrBelowUpper
                      THEN "BUY"
                    ELSE IF cur.belowLower /\ idx > period /\ cur.prevAtOrAboveLower
                      THEN "SELL"
                    ELSE "HOLD", inPos)
    [] id = "triple_ma" ->
         LET defined(j) ==
               /\ ~emaIsNaN(Period(reg, id, params, "shortPeriod"), j)
               /\ ~emaIsNaN(Period(reg, id, params, "mediumPeriod"), j)
               /\ ~emaIsNaN(Period(reg, id, params, "longPeriod"), j)
             bullish == defined(idx) /\ cur.bullish
             bearish == defined(idx) /\ cur.bearish
             prevBullish == defined(idx - 1) /\ prev.bullish
             prevBearish == defined(idx - 1) /\ prev.bearish
         IN  Pushed(IF bullish /\ ~prevBullish THEN "BUY"
                    ELSE IF bearish /\ ~prevBearish THEN "SELL"
                    ELSE "HOLD", inPos)
    [] id = "rsi_macd_combo" ->
         Pushed(IF (cur.rsiLow \/ prev.rsiLow) /\ cur.macdBullish THEN "BUY"
                ELSE IF (cur.rsiHigh \/ prev.rsiHigh) /\ cur.macdBearish THEN "SELL"
                ELSE "HOLD", inPos)
    [] id = "mean_reversion_vol" ->
         Pushed(IF cur.lowVol /\ cur.belowLower /\ ~prev.belowLower THEN "BUY"
                ELSE IF cur.lowVol /\ cur.aboveUpper /\ ~prev.aboveUpper THEN "SELL"
                ELSE "HOLD", inPos)

\* the loop body without its guard
LoopBodyUnguarded(reg, id, params, idx, prev, cur, inPos) ==
  Decide(reg, id, params, idx, prev, cur, inPos)

\* one iteration of the loop of a calculate
LoopBody(reg, id, params, idx, prev, cur, inPos) ==
  IF Holds(reg, id, params, idx) THEN Pushed("HOLD", inPos)
  ELSE Decide(reg, id, params, idx, prev, cur, inPos)

\* --- inputs
ParamIds(s) == { s.parameters[j].id : j \in 1..Len(s.parameters) }

Declared(s, name) ==
  s.parameters[CHOOSE j \in 1..Len(s.parameters) : s.parameters[j].id = name]

\* every declared parameter at the low or the high end of its range
Assignments(s) ==
  LET ends == UNION { {s.parameters[j].min, s.parameters[j].max} :
                        j \in 1..Len(s.parameters) }
  IN  { f \in [ParamIds(s) -> ends] :
          \A name \in ParamIds(s) :
             f[name] \in {Declared(s, name).min, Declared(s, name).max} }

\* the largest declared value of a parameter of either registry
LargestDeclared ==
  LET all == UNION { { Declared(RegistryOf(reg)[j], name).max \div 100 :
                         name \in ParamIds(RegistryOf(reg)[j]) } :
                       reg \in Registries, j \in 1..Len(strategies_part_006) }
  IN  CHOOSE m \in all : \A x \in all : x <= m

\* the first index the guard lets through
FirstActive(reg, id, params) ==
  CHOOSE k \in 0..2 * LargestDeclared :
    /\ ~Holds(reg, id, params, k)
    /\ k > 0 => Holds(reg, id, params, k - 1)

\* no bar, bars up to the guard, and MaxActiveBars bars more
SeriesLengths(reg, id, params) ==
  {0, FirstActive(reg, id, params), FirstActive(reg, id, params) + MaxActiveBars}

InitStrat ==
  /\ stRegistry \in Registries
  /\ \E j \in 1..Len(RegistryOf(stRegistry)) :
       /\ stId = RegistryOf(stRegistry)[j].id
       /\ stParams \in Assignments(RegistryOf(stRegistry)[j])
  /\ stLen \in SeriesLengths(stRegistry, stId, stParams)
  /\ stI = 0
  /\ stSignals = << >>
  /\ stInPosition = FALSE
  /\ stPrev = CHOOSE f \in BarFacts(stId) : TRUE
  /\ stPc = "loop"

\* for (let i = 0; i < data.length; i++) { ... }: one iteration
StrategyBar ==
  /\ stPc = "loop"
  /\ stI < stLen
  /\ \E cur \in BarFacts(stId) :
       LET out == LoopBody(stRegistry, stId, stParams, stI, stPrev, cur, stInPosition)
       IN  /\ stSignals' = Append(stSignals, out.signal)
           /\ stInPosition' = out.inPosition
           /\ stPrev' = cur
  /\ stI' = stI + 1
  /\ UNCHANGED << stRegistry, stId, stParams, stLen, stPc >>
  /\ UNCHANGED notStrat

\* return { signals, indicators }
StrategyReturn ==
  /\ stPc = "loop"
  /\ stI >= stLen
  /\ stPc' = "done"
  /\ UNCHANGED << stRegistry, stId, stParams, stLen, stI, stSignals, stInPosition,
                  stPrev >>
  /\ UNCHANGED notStrat

\* --- runs of the strategies that keep an inPosition flag, over
\* MaxPositionBars bars after the guard
MaxPositionBars == 4

\* part_005 lines 429, 595, 680, 743, 807: let inPosition = false
InPositionIds ==
  {"donchian_breakout", "keltner_breakout", "volatility_breakout", "volume_breakout",
   "trend_strength"}

InitPosition ==
  /\ stRegistry = "part_005"
  /\ \E j \in 1..Len(RegistryOf(stRegistry)) :
       /\ stId = RegistryOf(stRegistry)[j].id
       /\ stId \in InPositionIds
       /\ stParams \in Assignments(RegistryOf(stRegistry)[j])
  /\ stLen = FirstActive(stRegistry, stId, stParams) + MaxPositionBars
  /\ stI = 0
  /\ stSignals = << >>
  /\ stInPosition = FALSE
  /\ stPrev = CHOOSE f \in BarFacts(stId) : TRUE
  /\ stPc = "loop"

\* ------------------------------------------------- data fetching and cache
\* (src/App.tsx handleFetchData, src/services/cacheService.ts,
\* src/services/yahooFinance.ts, src/services/marketData.ts)
\*
\* Time is in hours.  A task is a running handleFetchData (slot 0) or a
\* background refresh it started (slots 1..MaxRefreshes); each await at which
\* other tasks can run ends a step.  A change of the selection has no
\* effect before the next click, so the two are one step.
MaxAdvances == 2
MaxClicks == 3
MaxRefreshes == 2

AppSymbols == {"", "^GSPC", "AAPL"}

\* the timeframes the user picks
AppTimeframes == {"hourly", "daily"}

\* cacheService.ts lines 34-46, in hours
getFreshnessDuration(timeframe) ==
  CASE timeframe = "hourly" -> 1
    [] timeframe = "daily" -> 24
    [] timeframe = "weekly" -> 7 * 24
    [] OTHER -> 24

\* the clock moves by an hour, or by an hour less than a day
Advances == {1, getFreshnessDuration("daily") - 1}

\* cacheService.ts lines 30-32 (the method is always 'A')
getCacheKey(symbol, timeframe) == << symbol, timeframe >>

CacheKeys == { getCacheKey(s, t) : s \in AppSymbols \ {""}, t \in AppTimeframes }

\* db.get of a key that is not stored
NoEntry == [stored |-> FALSE, timestamp |-> 0, data |-> << >>]

\* OHLCVData[] as returned by the API: whose bars they are and when they
\* were downloaded
Downloaded(symbol, timeframe, at) ==
  << [symbol |-> symbol, timeframe |-> timeframe, downloaded |-> at] >>

\* cacheService.ts lines 85-92
CachedData(bars, timestamp) == [stored |-> TRUE, timestamp |-> timestamp, data |-> bars]

\* cacheService.ts lines 98-102, with Date.now() = time
isCacheValid(cached, timeframe, time) ==
  time - cached.timestamp < getFreshnessDuration(timeframe)

NoTask == [pc |-> "idle", symbol |-> "", timeframe |-> "daily", data |-> << >>]

Slots == 0..MaxRefreshes

Refreshes == 1..MaxRefreshes

NoError == "null"

\* what a handleFetchData call found at line 49 and how it ended
NoCall == [found |-> NoEntry, stale |-> FALSE, failed |-> FALSE, finished |-> FALSE,
           rawData |-> << >>, isUsingCache |-> FALSE, error |-> NoError]

InitApp ==
  /\ dateNow = 0
  /\ advances = 0
  /\ clicks = 0
  /\ cache = [k \in CacheKeys |-> NoEntry]
  /\ selectedSymbol = "^GSPC"
  /\ selectedTimeframe = "daily"
  /\ rawData = << >>
  /\ loading = FALSE
  /\ error = NoError
  /\ isUsingCache = FALSE
  /\ tasks = [t \in Slots |-> NoTask]
  /\ lastRequest = << >>
  /\ served = << >>
  /\ apiCall = << >>
  /\ call = NoCall

\* the passage of time
Advance(d) ==
  /\ advances < MaxAdvances
  /\ dateNow' = dateNow + d
  /\ advances' = advances + 1
  /\ UNCHANGED << clicks, cache, selectedSymbol, selectedTimeframe, rawData, loading, error,
                  isUsingCache, tasks, lastRequest, served, apiCall, call >>
  /\ UNCHANGED notApp

\* App.tsx lines 123-128, 37-45 and 141: the user picks a symbol and a
\* timeframe and clicks Fetch Data, which is enabled while loading is false
Click(symbol, timeframe) ==
  /\ ~ loading
  /\ clicks < MaxClicks
  /\ \E t \in Refreshes : tasks[t].pc = "idle"
  /\ clicks' = clicks + 1
  /\ selectedSymbol' = symbol
  /\ selectedTimeframe' = timeframe
  /\ IF symbol = ""
     THEN /\ error' = "Please select or enter a symbol"
          /\ UNCHANGED << loading, isUsingCache, tasks, lastRequest, call >>
     ELSE /\ loading' = TRUE
          /\ error' = NoError
          /\ isUsingCache' = FALSE
          /\ tasks' = [tasks EXCEPT ![0] = [pc |-> "app_read", symbol |-> symbol,
                                            timeframe |-> timeframe, data |-> << >>]]
          /\ lastRequest' = << [symbol |-> symbol, timeframe |-> timeframe] >>
          /\ call' = NoCall
  /\ UNCHANGED << dateNow, advances, cache, rawData, served, apiCall >>
  /\ UNCHANGED notApp

\* the first idle refresh slot
FreeSlot == CHOOSE t \in Refreshes : tasks[t].pc = "idle" /\ \A u \in 1..(t - 1) : tasks[u].pc # "idle"

\* App.tsx lines 49-69 with cacheService.ts lines 54-65: db.get; no entry:
\* go on to fetchMarketData; a valid entry: show it and start the background
\* refresh; a stale entry: db.delete is awaited next
AppRead ==
  /\ tasks[0].pc = "app_read"
  /\ LET task == tasks[0]
         cached == cache[getCacheKey(task.symbol, task.timeframe)]
     IN  IF ~ cached.stored
         THEN /\ tasks' = [tasks EXCEPT ![0].pc = "svc_read"]
              /\ call' = [call EXCEPT !.found = cached]
              /\ UNCHANGED << rawData, loading, isUsingCache, served >>
         ELSE IF isCacheValid(cached, task.timeframe, dateNow)
         THEN /\ isUsingCache' = TRUE
              /\ rawData' = cached.data
              /\ loading' = FALSE
              /\ served' = << [data |-> cached.data, at |-> dateNow] >>
              /\ tasks' = [tasks EXCEPT ![0] = NoTask,
                                        ![FreeSlot] = [task EXCEPT !.pc = "svc_read"]]
              /\ call' = [call EXCEPT !.found = cached, !.finished = TRUE,
                                      !.rawData = cached.data, !.isUsingCache = TRUE]
         ELSE /\ tasks' = [tasks EXCEPT ![0].pc = "app_delete"]
              /\ call' = [call EXCEPT !.found = cached, !.stale = TRUE]
              /\ UNCHANGED << rawData, loading, isUsingCache, served >>
  /\ UNCHANGED << dateNow, advances, clicks, cache, selectedSymbol, selectedTimeframe, error,
                  lastRequest, apiCall >>
  /\ UNCHANGED notApp

\* cacheService.ts lines 67-69 inside line 49: the stale entry is deleted,
\* getCachedData returns null, line 72 calls fetchMarketData
AppDelete ==
  /\ tasks[0].pc = "app_delete"
  /\ cache' = [cache EXCEPT ![getCacheKey(tasks[0].symbol, tasks[0].timeframe)] = NoEntry]
  /\ tasks' = [tasks EXCEPT ![0].pc = "svc_read"]
  /\ UNCHANGED << dateNow, advances, clicks, selectedSymbol, selectedTimeframe, rawData, loading,
                  error, isUsingCache, lastRequest, served, apiCall, call >>
  /\ UNCHANGED notApp

\* where fetchMarketData returns to: line 73 of handleFetchData, or the
\* then-callback of the background refresh (line 61)
Resolved(t) == IF t = 0 THEN "app_put" ELSE "bg_put"

\* yahooFinance.ts lines 206-231 (and the same lines of the crypto, forex
\* and index fetchers): db.get; a valid entry is returned as the result; no
\* entry: the request to the API is sent; a stale entry: db.delete first
SvcRead(t) ==
  /\ tasks[t].pc = "svc_read"
  /\ LET task == tasks[t]
         cached == cache[getCacheKey(task.symbol, task.timeframe)]
     IN  IF ~ cached.stored
         THEN /\ tasks' = [tasks EXCEPT ![t].pc = "api"]
              /\ apiCall' = << cached >>
              /\ UNCHANGED served
         ELSE IF isCacheValid(cached, task.timeframe, dateNow)
         THEN /\ tasks' = [tasks EXCEPT ![t].pc = Resolved(t), ![t].data = cached.data]
              /\ served' = << [data |-> cached.data, at |-> dateNow] >>
              /\ UNCHANGED apiCall
         ELSE /\ tasks' = [tasks EXCEPT ![t].pc = "svc_delete"]
              /\ UNCHANGED << served, apiCall >>
  /\ UNCHANGED << dateNow, advances, clicks, cache, selectedSymbol, selectedTimeframe, rawData,
                  loading, error, isUsingCache, lastRequest, call >>
  /\ UNCHANGED notApp

\* cacheService.ts lines 67-69 inside yahooFinance.ts line 207, then line 231
SvcDelete(t) ==
  /\ tasks[t].pc = "svc_delete"
  /\ LET key == getCacheKey(tasks[t].symbol, tasks[t].timeframe)
     IN  /\ cache' = [cache EXCEPT ![key] = NoEntry]
         /\ apiCall' = << cache'[key] >>
  /\ tasks' = [tasks EXCEPT ![t].pc = "api"]
  /\ UNCHANGED << dateNow, advances, clicks, selectedSymbol, selectedTimeframe, rawData, loading,
                  error, isUsingCache, lastRequest, served, call >>
  /\ UNCHANGED notApp

\* yahooFinance.ts lines 231-236: the API answered; the bars are stored with
\* timestamp Date.now() and returned
ApiSuccess(t) ==
  /\ tasks[t].pc = "api"
  /\ LET task == tasks[t]
         transformed == Downloaded(task.symbol, task.timeframe, dateNow)
     IN  /\ cache' = [cache EXCEPT ![getCacheKey(task.symbol, task.timeframe)] =
                        CachedData(transformed, dateNow)]
         /\ tasks' = [tasks EXCEPT ![t].pc = Resolved(t), ![t].data = transformed]
  /\ UNCHANGED << dateNow, advances, clicks, selectedSymbol, selectedTimeframe, rawData, loading,
                  error, isUsingCache, lastRequest, served, apiCall, call >>
  /\ UNCHANGED notApp

\* yahooFinance.ts lines 172-199 and 237-240: the request and the proxy
\* retry failed; handleFetchData goes to its catch block (line 75), a
\* background refresh ends silently (App.tsx lines 65-67)
ApiFail(t) ==
  /\ tasks[t].pc = "api"
  /\ tasks' = [tasks EXCEPT ![t] = IF t = 0 THEN [@ EXCEPT !.pc = "catch_read"] ELSE NoTask]
  /\ call' = IF t = 0 THEN [call EXCEPT !.failed = TRUE] ELSE call
  /\ UNCHANGED << dateNow, advances, clicks, cache, selectedSymbol, selectedTimeframe, rawData,
                  loading, error, isUsingCache, lastRequest, served, apiCall >>
  /\ UNCHANGED notApp

\* App.tsx line 73 (t = 0) and line 61 (a refresh): setCachedData stores what
\* fetchMarketData returned, with timestamp Date.now()
Put(t) ==
  /\ tasks[t].pc = Resolved(t)
  /\ cache' = [cache EXCEPT ![getCacheKey(tasks[t].symbol, tasks[t].timeframe)] =
                 CachedData(tasks[t].data, dateNow)]
  /\ tasks' = [tasks EXCEPT ![t].pc = IF t = 0 THEN "app_set" ELSE "bg_set"]
  /\ UNCHANGED << dateNow, advances, clicks, selectedSymbol, selectedTimeframe, rawData, loading,
                  error, isUsingCache, lastRequest, served, apiCall, call >>
  /\ UNCHANGED notApp

\* App.tsx lines 74 and 88-90
AppSet ==
  /\ tasks[0].pc = "app_set"
  /\ rawData' = tasks[0].data
  /\ loading' = FALSE
  /\ tasks' = [tasks EXCEPT ![0] = NoTask]
  /\ call' = [call EXCEPT !.finished = TRUE, !.rawData = tasks[0].data]
  /\ UNCHANGED << dateNow, advances, clicks, cache, selectedSymbol, selectedTimeframe, error,
                  isUsingCache, lastRequest, served, apiCall >>
  /\ UNCHANGED notApp

\* App.tsx lines 62-63
RefreshSet(t) ==
  /\ tasks[t].pc = "bg_set"
  /\ rawData' = tasks[t].data
  /\ isUsingCache' = FALSE
  /\ tasks' = [tasks EXCEPT ![t] = NoTask]
  /\ UNCHANGED << dateNow, advances, clicks, cache, selectedSymbol, selectedTimeframe, loading,
                  error, lastRequest, served, apiCall, call >>
  /\ UNCHANGED notApp

\* App.tsx lines 78-90 once getCachedData of line 77 has returned cached
CatchEnd(cached) ==
  /\ IF cached.stored /\ Len(cached.data) > 0
     THEN /\ rawData' = cached.data
          /\ isUsingCache' = TRUE
          /\ error' = "failed. Using cached data instead."
     ELSE /\ error' = "failed"
          /\ rawData' = << >>
          /\ UNCHANGED isUsingCache
  /\ loading' = FALSE
  /\ tasks' = [tasks EXCEPT ![0] = NoTask]
  /\ call' = [call EXCEPT !.finished = TRUE, !.rawData = rawData',
                          !.isUsingCache = isUsingCache', !.error = error']

\* App.tsx line 77 with cacheService.ts lines 54-65: a valid entry is used,
\* no entry gives null, a stale entry is deleted first
CatchRead ==
  /\ tasks[0].pc = "catch_read"
  /\ LET cached == cache[getCacheKey(tasks[0].symbol, tasks[0].timeframe)]
     IN  IF cached.stored /\ ~ isCacheValid(cached, tasks[0].timeframe, dateNow)
         THEN /\ tasks' = [tasks EXCEPT ![0].pc = "catch_delete"]
              /\ UNCHANGED << rawData, loading, error, isUsingCache, served, call >>
         ELSE /\ CatchEnd(cached)
              /\ served' = IF cached.stored THEN << [data |-> cached.data, at |-> dateNow] >>
                           ELSE served
  /\ UNCHANGED << dateNow, advances, clicks, cache, selectedSymbol, selectedTimeframe,
                  lastRequest, apiCall >>
  /\ UNCHANGED notApp

\* cacheService.ts lines 67-69 inside line 77: the stale entry is deleted and
\* getCachedData returns null
CatchDelete ==
  /\ tasks[0].pc = "catch_delete"
  /\ cache' = [cache EXCEPT ![getCacheKey(tasks[0].symbol, tasks[0].timeframe)] = NoEntry]
  /\ CatchEnd(NoEntry)
  /\ UNCHANGED << dateNow, advances, clicks, selectedSymbol, selectedTimeframe, lastRequest,
                  served, apiCall >>
  /\ UNCHANGED notApp

\* ------------------------------------------------------------ calculateRSI
\* (strategies.ts, part_006 lines 60-100)
MaxRsiBars == 5

RsiPrices == 1..3

RsiPeriods == {2, 3}

\* lines 66-75: gains[i] and losses[i], indexed from 0
rsiGains(bars) ==
  [j \in 0..Len(bars) - 1 |->
     IF j = 0 THEN F(0) ELSE MathMax(F(0), FSub(bars[j + 1].close, bars[j].close))]

rsiLosses(bars) ==
  [j \in 0..Len(bars) - 1 |->
     IF j = 0 THEN F(0) ELSE MathMax(F(0), FNeg(FSub(bars[j + 1].close, bars[j].close)))]

\* lines 84-90: arr.slice(from, to + 1).reduce((a, b) => a + b, 0) / period,
\* the slice being 1 .. period at i = period and i - period + 1 .. i later
sliceMean(arr, idx, period) ==
  IF idx = period THEN FDiv(SumRange(arr, F(0), 1, period), F(period))
  ELSE FDiv(SumRange(arr, F(0), idx - period + 1, idx), F(period))

\* lines 92-97
rsiValue(avgGain, avgLoss) ==
  IF FEq(avgLoss, F(0)) THEN F(100)
  ELSE FSub(F(100), FDiv(F(100), FAdd(F(1), FDiv(avgGain, avgLoss))))

\* lines 60-100; avgGain and avgLoss are the loop's local values at the
\* indices where it computes them
calculateRSI(bars, period) ==
  LET computed == { j \in 0..Len(bars) - 1 : j > 0 /\ ~ (j < period) }
      avgGain == [j \in computed |-> sliceMean(rsiGains(bars), j, period)]
      avgLoss == [j \in computed |-> sliceMean(rsiLosses(bars), j, period)]
  IN  [result |-> [j \in 0..Len(bars) - 1 |->
                     IF j \in computed THEN rsiValue(avgGain[j], avgLoss[j]) ELSE F(50)],
       avgGain |-> avgGain,
       avgLoss |-> avgLoss]

InitRsi ==
  /\ \E n \in 0..MaxRsiBars :
       riData \in [1..n -> { [close |-> F(c)] : c \in RsiPrices }]
  /\ riPeriod \in RsiPeriods
  /\ riPc = "call"
  /\ riResult = << >>

RsiCall ==
  /\ riPc = "call"
  /\ riResult' = calculateRSI(riData, riPeriod)
  /\ riPc' = "done"
  /\ UNCHANGED << riData, riPeriod >>
  /\ UNCHANGED notRsi

\* ------------------------------------------------------ calculateSupertrend
\* (strategies.ts, part_005 lines 88-113, 179-243 and 632-659)
MaxSupertrendBars == 5

SupertrendPrices == {F(1), F(3)}

\* bars as [high, low, close] with low <= close <= high
SupertrendBars ==
  { b \in [high : SupertrendPrices, low : SupertrendPrices, close : SupertrendPrices] :
      FGe(b.high, b.close) /\ FGe(b.close, b.low) }

SupertrendPeriods == {1, 3}

SupertrendMultipliers == {F(1), F(3)}

\* lines 93-102, indexed from 0
trueRanges(bars) ==
  [j \in 0..Len(bars) - 1 |->
     IF j = 0 THEN FSub(bars[1].high, bars[1].low)
     ELSE MathMax(MathMax(FSub(bars[j + 1].high, bars[j + 1].low),
                          MathAbs(FSub(bars[j + 1].high, bars[j].close))),
                  MathAbs(FSub(bars[j + 1].low, bars[j].close)))]

\* lines 104-110: result[j]
RECURSIVE atrAt(_, _, _)
atrAt(bars, period, j) ==
  IF j < period - 1 THEN ZeroOverZero
  ELSE IF j = period - 1
    THEN FDiv(SumRange(trueRanges(bars), F(0), 0, period - 1), F(period))
  ELSE FDiv(FAdd(FMul(atrAt(bars, period, j - 1), F(period - 1)), trueRanges(bars)[j]),
            F(period))

\* lines 88-113
calculateATR(bars, period) == [j \in 0..Len(bars) - 1 |-> atrAt(bars, period, j)]

\* lines 190-192
basicBands(bar, multiplier, atr) ==
  LET hl2 == FDiv(FAdd(bar.high, bar.low), F(2))
  IN  [upper |-> FAdd(hl2, FMul(multiplier, atr)),
       lower |-> FSub(hl2, FMul(multiplier, atr))]

\* the bands without the adjustment of lines 208-212
finalBandsUnadjusted(basic, prevDirection, prevSupertrend) == basic

\* lines 204-212: finalUpperBand and finalLowerBand
finalBands(basic, prevDirection, prevSupertrend) ==
  IF prevDirection = 1
    THEN [upper |-> basic.upper, lower |-> MathMax(basic.lower, prevSupertrend)]
  ELSE [upper |-> MathMin(basic.upper, prevSupertrend), lower |-> basic.lower]

\* lines 184-239: one pass of the loop at index idx, given what was pushed
\* at idx - 1
supertrendBar(bars, period, multiplier, atr, idx, prev) ==
  IF idx < period \/ isNaN(atr[idx]) THEN [supertrend |-> ZeroOverZero, direction |-> 0]
  ELSE LET bar == bars[idx + 1]
           basic == basicBands(bar, multiplier, atr[idx])
       IN  IF idx = period
             THEN IF FGt(bar.close, basic.upper)
                    THEN [supertrend |-> basic.lower, direction |-> 1]
                  ELSE [supertrend |-> basic.upper, direction |-> -1]
           ELSE LET final == finalBands(basic, prev.direction, prev.supertrend)
                IN  IF prev.direction = 1
                      THEN IF FLt(bar.close, final.lower)
                             THEN [supertrend |-> final.upper, direction |-> -1]
                           ELSE [supertrend |-> final.lower, direction |-> 1]
                    ELSE IF FGt(bar.close, final.upper)
                           THEN [supertrend |-> final.lower, direction |-> 1]
                         ELSE [supertrend |-> final.upper, direction |-> -1]

\* what the loop has pushed for index idx
RECURSIVE supertrendAt(_, _, _, _, _)
supertrendAt(bars, period, multiplier, atr, idx) ==
  supertrendBar(bars, period, multiplier, atr, idx,
                IF idx > period /\ idx > 0
                  THEN supertrendAt(bars, period, multiplier, atr, idx - 1)
                ELSE [supertrend |-> ZeroOverZero, direction |-> 0])

\* lines 179-243
calculateSupertrend(bars, period, multiplier) ==
  LET atr == calculateATR(bars, period)
      at == [j \in 0..Len(bars) - 1 |-> supertrendAt(bars, period, multiplier, atr, j)]
  IN  [supertrend |-> [j \in 0..Len(bars) - 1 |-> at[j].supertrend],
       direction |-> [j \in 0..Len(bars) - 1 |-> at[j].direction]]

\* lines 633-658: strategies[supertrend].calculate
supertrendCalculate(bars, period, multiplier) ==
  LET st == calculateSupertrend(bars, period, multiplier)
  IN  [signals |-> [j \in 0..Len(bars) - 1 |->
                      IF j < period + 1 \/ st.direction[j] = 0 THEN "HOLD"
                      ELSE IF st.direction[j] = 1 /\ st.direction[j - 1] = -1 THEN "BUY"
                      ELSE IF st.direction[j] = -1 /\ st.direction[j - 1] = 1 THEN "SELL"
                      ELSE "HOLD"],
       indicators |-> st]

InitSupertrend ==
  /\ \E n \in 0..MaxSupertrendBars : suData \in [1..n -> SupertrendBars]
  /\ suPeriod \in SupertrendPeriods
  /\ suMultiplier \in SupertrendMultipliers
  /\ suPc = "call"
  /\ suResult = << >>

SupertrendCall ==
  /\ suPc = "call"
  /\ suResult' = supertrendCalculate(suData, suPeriod, suMultiplier)
  /\ suPc' = "done"
  /\ UNCHANGED << suData, suPeriod, suMultiplier >>
  /\ UNCHANGED notSupertrend

\* ------------------------------------------------------- specifications
IdleWF ==
  /\ wfBars = 0
  /\ wfConfig = OPT_DEFAULT_CONFIG
  /\ wfPc = "idle"
  /\ windows = << >>
  /\ wfW = 0
  /\ windowResults = << >>
  /\ backtestRuns = 0
  /\ roundedDown = {}
  /\ wfResult = Pending
  /\ wfFlat = TRUE
  /\ combinations = << >>
  /\ runningCapital = 0
  /\ paramCounts = NoParams
  /\ calls = << >>

IdleMS ==
  /\ msBars = 0
  /\ strategyIds = << >>
  /\ msPc = "idle"
  /\ msK = 0
  /\ results = << >>
  /\ ranking = << >>
  /\ bestStrategy = Pending

IdleZone ==
  /\ barDemand = 0
  /\ barSupply = 0
  /\ hamiltonParams = NoParams
  /\ zonePc = "idle"
  /\ zoneRule = 0
  /\ tradingSignal = Pending
  /\ hamiltonSignals = << >>

IdleForce ==
  /\ fcData = << >>
  /\ fcMethod = "B"
  /\ fcPc = "idle"
  /\ fcResult = << >>

IdleStrat ==
  /\ stRegistry = "part_005"
  /\ stId = "hamilton"
  /\ stParams = << >>
  /\ stLen = 0
  /\ stI = 0
  /\ stSignals = << >>
  /\ stInPosition = FALSE
  /\ stPrev = [demand |-> 0, supply |-> 0]
  /\ stPc = "idle"

IdleGen ==
  /\ gpStrategy = NoStrategy
  /\ gpCustom = NoRanges
  /\ gpOver = {}
  /\ gpPc = "idle"
  /\ gpResult = << >>

IdleTwice ==
  /\ wfRun = 1
  /\ wfFirst = NoFirst

IdleApp ==
  /\ dateNow = 0
  /\ advances = 0
  /\ clicks = 0
  /\ cache = << >>
  /\ selectedSymbol = ""
  /\ selectedTimeframe = "daily"
  /\ rawData = << >>
  /\ loading = FALSE
  /\ error = "null"
  /\ isUsingCache = FALSE
  /\ tasks = << >>
  /\ lastRequest = << >>
  /\ served = << >>
  /\ apiCall = << >>
  /\ call = << >>

IdleRsi ==
  /\ riData = << >>
  /\ riPeriod = 0
  /\ riPc = "idle"
  /\ riResult = << >>

IdleSupertrend ==
  /\ suData = << >>
  /\ suPeriod = 0
  /\ suMultiplier = 0
  /\ suPc = "idle"
  /\ suResult = << >>

IdleBT ==
  /\ data = << >>
  /\ config = << >>
  /\ cfg = DEFAULT_CONFIG
  /\ signals = << >>
  /\ pc = "idle"
  /\ i = 0
  /\ position = "FLAT"
  /\ entryPrice = 0
  /\ entryDate = 0
  /\ entryIndex = 0
  /\ capital = Zero
  /\ trades = << >>
  /\ equityCurve = << >>
  /\ peakEquity = Zero
  /\ calcCalls = 0
  /\ result = NoResult

Init == InitBT /\ IdleWF /\ IdleMS /\ IdleZone /\ IdleForce /\ IdleStrat /\ IdleGen /\ IdleTwice /\ IdleApp /\ IdleRsi /\ IdleSupertrend

Next == BTReject \/ BTStart \/ BTBar \/ BTFinish

Spec == Init /\ [][Next]_vars

InitOpt == IdleBT /\ InitWF /\ IdleMS /\ IdleZone /\ IdleForce /\ IdleStrat /\ IdleGen /\ IdleTwice /\ IdleApp /\ IdleRsi /\ IdleSupertrend

NextOpt == WFReject \/ WFStart \/ WFWindow \/ WFFinish

SpecOpt == InitOpt /\ [][NextOpt]_vars

InitGrid == IdleBT /\ InitSearch /\ IdleMS /\ IdleZone /\ IdleForce /\ IdleStrat /\ IdleGen /\ IdleTwice /\ IdleApp /\ IdleRsi /\ IdleSupertrend

SpecSearch == InitGrid /\ [][NextOpt]_vars

InitRank == IdleBT /\ IdleWF /\ InitMS /\ IdleZone /\ IdleForce /\ IdleStrat /\ IdleGen /\ IdleTwice /\ IdleApp /\ IdleRsi /\ IdleSupertrend

NextRank == MSRun \/ MSRank

SpecRank == InitRank /\ [][NextRank]_vars

InitZones == IdleBT /\ IdleWF /\ IdleMS /\ InitZone /\ IdleForce /\ IdleStrat /\ IdleGen /\ IdleTwice /\ IdleApp /\ IdleRsi /\ IdleSupertrend

NextZone == Classify \/ Calculate

SpecZone == InitZones /\ [][NextZone]_vars

InitForces == IdleBT /\ IdleWF /\ IdleMS /\ IdleZone /\ InitForce /\ IdleStrat /\ IdleGen /\ IdleTwice /\ IdleApp /\ IdleRsi /\ IdleSupertrend

NextForce == Forces("A") \/ Forces("B") \/ Forces("C") \/ Forces("D")

SpecForce == InitForces /\ [][NextForce]_vars

InitStrategies == IdleBT /\ IdleWF /\ IdleMS /\ IdleZone /\ IdleForce /\ InitStrat /\ IdleGen /\ IdleTwice /\ IdleApp /\ IdleRsi /\ IdleSupertrend

NextStrat == StrategyBar \/ StrategyReturn

SpecStrat == InitStrategies /\ [][NextStrat]_vars

InitPositions == IdleBT /\ IdleWF /\ IdleMS /\ IdleZone /\ IdleForce /\ InitPosition /\ IdleGen /\ IdleTwice /\ IdleApp /\ IdleRsi /\ IdleSupertrend

SpecPosition == InitPositions /\ [][NextStrat]_vars

InitGenerate == IdleBT /\ IdleWF /\ IdleMS /\ IdleZone /\ IdleForce /\ IdleStrat /\ InitGen /\ IdleTwice /\ IdleApp /\ IdleRsi /\ IdleSupertrend

NextGen == Generate

SpecGen == InitGenerate /\ [][NextGen]_vars

InitTwice == IdleBT /\ InitAgain /\ IdleMS /\ IdleZone /\ IdleForce /\ IdleStrat /\ IdleGen /\ IdleTwice /\ IdleApp /\ IdleRsi /\ IdleSupertrend

NextTwice ==
  \/ WFReject
  \/ WFStart /\ SameFloors'
  \/ WFWindow /\ SameBacktests'
  \/ WFFinish
  \/ WFCallAgain

SpecTwice == InitTwice /\ [][NextTwice]_vars

InitFetching == IdleBT /\ IdleWF /\ IdleMS /\ IdleZone /\ IdleForce /\ IdleStrat /\ IdleGen /\ IdleTwice /\ InitApp /\ IdleRsi /\ IdleSupertrend

NextApp ==
  \/ \E d \in Advances : Advance(d)
  \/ \E symbol \in AppSymbols, timeframe \in AppTimeframes : Click(symbol, timeframe)
  \/ AppRead
  \/ AppDelete
  \/ \E t \in Slots : SvcRead(t)
  \/ \E t \in Slots : SvcDelete(t)
  \/ \E t \in Slots : ApiSuccess(t)
  \/ \E t \in Slots : ApiFail(t)
  \/ \E t \in Slots : Put(t)
  \/ AppSet
  \/ \E t \in Refreshes : RefreshSet(t)
  \/ CatchRead
  \/ CatchDelete

SpecApp == InitFetching /\ [][NextApp]_vars

InitRsis == IdleBT /\ IdleWF /\ IdleMS /\ IdleZone /\ IdleForce /\ IdleStrat /\ IdleGen /\ IdleTwice /\ IdleApp /\ InitRsi /\ IdleSupertrend

NextRsi == RsiCall

SpecRsi == InitRsis /\ [][NextRsi]_vars

InitSupertrends == IdleBT /\ IdleWF /\ IdleMS /\ IdleZone /\ IdleForce /\ IdleStrat /\ IdleGen /\ IdleTwice /\ IdleApp /\ IdleRsi /\ InitSupertrend

NextSupertrend == SupertrendCall

SpecSupertrend == InitSupertrends /\ [][NextSupertrend]_vars

\* ------------------------------------------------- backtester properties
Registered(id) == \E j \in 1..Len(strategies) : strategies[j].id = id

\* runBacktest took the non-empty path and has returned
Ran == pc = "done" /\ Len(data) >= 2 /\ Registered(cfg.strategyId)

NoSellBefore(j) == \A x \in 1..j : signals[x] # "SELL"

AllHoldBefore(j) == \A x \in 1..j : signals[x] = "HOLD"

LastBar == data[Len(data)]

\* initialCapital * (1 - transactionCost / 100), exactly one cost factor
OneEntryCost == [k |-> 1, n |-> 1, d |-> 1]

\* C1: a run on >= 2 bars with a registered strategy starts LONG at bar 0's
\* close with capital = initialCapital * (1 - transactionCost/100); while no
\* signal has been SELL nothing changes, and such a run ends with exactly one
\* trade, LONG, entered at bar 0 and exited at the last bar.
C1_StartsLongAndHolds ==
  /\ (pc = "loop" /\ NoSellBefore(i)) =>
        /\ position = "LONG"
        /\ entryPrice = data[1].close
        /\ entryDate = data[1].date
        /\ capital = OneEntryCost
        /\ trades = << >>
  /\ (Ran /\ NoSellBefore(Len(data))) =>
        /\ Len(result.trades) = 1
        /\ result.trades[1].type = "LONG"
        /\ result.trades[1].entryDate = data[1].date
        /\ result.trades[1].entryPrice = data[1].close
        /\ result.trades[1].exitDate = LastBar.date
        /\ result.trades[1].exitPrice = LastBar.close

C1_Witness ==
  /\ Ran /\ Len(data) = 3 /\ NoSellBefore(3)
  /\ signals[2] = "BUY"
  /\ cfg.transactionCost.n # 0
  /\ Len(result.trades) = 1
  /\ result.trades[1].exitPrice # result.trades[1].entryPrice

Opposes(pos, sig) == (pos = "LONG" /\ sig = "SELL") \/ (pos = "SHORT" /\ sig = "BUY")

\* the number the return factor 1 + returnPct/100 of a close at price has over
\* the denominator entryPrice
FactorNum(pos, price) == IF pos = "LONG" THEN price ELSE 2 * entryPrice - price

C2_Step ==
  (pc = "loop" /\ i < Len(data) /\ Opposes(position, signals[i + 1])) =>
    LET bar == data[i + 1]
        t == trades'[Len(trades')]
        opened == IF position = "SHORT" THEN "LONG"
                  ELSE IF cfg.allowShorts THEN "SHORT" ELSE "FLAT"
        costs == IF opened = "FLAT" THEN 1 ELSE 2
    IN  /\ trades' = Append(trades, t)
        /\ t.type = position
        /\ t.entryPrice = entryPrice /\ t.entryDate = entryDate
        /\ t.exitPrice = bar.close /\ t.exitDate = bar.date
        /\ t.returnPct.d > 0
        /\ t.returnPct.n * entryPrice
             = (IF position = "LONG" THEN bar.close - entryPrice ELSE entryPrice - bar.close)
               * 100 * t.returnPct.d
        /\ Same(capital', Amount(capital.k + costs,
                                 capital.n * FactorNum(position, bar.close),
                                 capital.d * entryPrice))
        /\ position' = opened
        /\ opened # "FLAT" => (entryPrice' = bar.close /\ entryDate' = bar.date)

\* C2: a bar whose signal opposes the open position closes it at that bar's
\* close: one trade of the closed type is appended with the percentage return
\* of the position, capital is multiplied by (1 + returnPct/100) and one cost
\* factor; SHORT+BUY always reopens LONG, LONG+SELL reopens SHORT only when
\* shorts are allowed, and a reopening enters at the same close and charges a
\* second cost factor.
C2_CloseOnOpposingSignal == [][C2_Step]_vars

C2_Witness ==
  /\ pc = "loop" /\ Len(trades) = 2
  /\ trades[1].type = "LONG" /\ trades[2].type = "SHORT"
  /\ position = "LONG" /\ entryIndex = 1
  /\ cfg.transactionCost.n # 0
  /\ trades[2].returnPct.n # 0

C3_Step ==
  (pc = "loop" /\ i < Len(data)) =>
    LET bar == data[i + 1]
        sig == signals[i + 1]
    IN  /\ (position = "FLAT" /\ sig = "BUY") =>
              /\ position' = "LONG" /\ entryPrice' = bar.close /\ entryDate' = bar.date
              /\ Same(capital', Amount(capital.k + 1, capital.n, capital.d))
              /\ trades' = trades
        /\ (position = "FLAT" /\ sig = "SELL" /\ cfg.allowShorts) =>
              /\ position' = "SHORT" /\ entryPrice' = bar.close /\ entryDate' = bar.date
              /\ Same(capital', Amount(capital.k + 1, capital.n, capital.d))
              /\ trades' = trades
        /\ (\/ sig = "HOLD"
            \/ (position = "LONG" /\ sig = "BUY")
            \/ (position = "SHORT" /\ sig = "SELL")
            \/ (position = "FLAT" /\ sig = "SELL" /\ ~ cfg.allowShorts)) =>
              UNCHANGED << position, entryPrice, entryDate, capital, trades >>

\* C3: from FLAT a BUY opens LONG at the bar's close for exactly one cost and
\* a SELL opens SHORT only when shorts are allowed; every other pair of
\* position and signal that is not a transition rule leaves position, entry
\* price, entry date, capital and trades unchanged.
C3_FlatEntriesAndFrame == [][C3_Step]_vars

C3_Witness ==
  /\ pc = "loop" /\ ~ cfg.allowShorts
  /\ Len(trades) = 1 /\ position = "LONG" /\ entryIndex = 2
  /\ signals[2] = "SELL"
  /\ cfg.transactionCost.n # 0

\* the positions opened by the bars from index j on, starting in position pos
RECURSIVE OpenedFrom(_, _)
OpenedFrom(pos, j) ==
  IF j > Len(signals) THEN 0
  ELSE LET sig == signals[j]
       IN  IF pos = "FLAT" /\ sig = "BUY" THEN 1 + OpenedFrom("LONG", j + 1)
           ELSE IF pos = "FLAT" /\ sig = "SELL" /\ cfg.allowShorts THEN 1 + OpenedFrom("SHORT", j + 1)
           ELSE IF pos = "LONG" /\ sig = "SELL" /\ cfg.allowShorts THEN 1 + OpenedFrom("SHORT", j + 1)
           ELSE IF pos = "LONG" /\ sig = "SELL" THEN OpenedFrom("FLAT", j + 1)
           ELSE IF pos = "SHORT" /\ sig = "BUY" THEN 1 + OpenedFrom("LONG", j + 1)
           ELSE OpenedFrom(pos, j + 1)

\* C4: after a run no position is left without a trade record: a position
\* still open after the last bar is recorded as a trade of its type exiting at
\* the last bar's date and close; the number of trades equals the number of
\* positions opened (the initial LONG included) and is never 0.
C4_EveryPositionRecorded ==
  Ran =>
    /\ position \in {"LONG", "SHORT"} =>
          LET t == result.trades[Len(result.trades)]
          IN  /\ t.type = position
              /\ t.entryPrice = entryPrice /\ t.entryDate = entryDate
              /\ t.exitDate = LastBar.date /\ t.exitPrice = LastBar.close
    /\ Len(result.trades) = 1 + OpenedFrom("LONG", 1)
    /\ Len(result.trades) >= 1
    /\ result.totalTrades = Len(result.trades)

C4_Witness ==
  /\ Ran /\ position = "SHORT"
  /\ Len(result.trades) = 4
  /\ result.trades[4].type = "SHORT"

\* C5: when every signal is HOLD the strategy equity of every bar is the
\* buy-and-hold equity of that bar times (1 - transactionCost/100), and so is
\* the final equity; the forced close at the end charges no cost.
C5_HoldTracksBuyAndHold ==
  /\ (pc \in {"loop", "done"} /\ AllHoldBefore(Len(equityCurve))) =>
        \A j \in 1..Len(equityCurve) :
           Same(equityCurve[j].strategy,
                Amount(1, data[j].close, data[1].close))
  /\ (Ran /\ AllHoldBefore(Len(data))) =>
        /\ Same(result.finalEquity, Amount(1, LastBar.close, data[1].close))
        /\ Same(result.buyAndHoldFinal, Amount(0, LastBar.close, data[1].close))
        /\ Same(capital, Amount(1, LastBar.close, data[1].close))

C5_Witness ==
  /\ Ran /\ Len(data) = 3 /\ AllHoldBefore(3)
  /\ cfg.transactionCost.n # 0
  /\ data[3].close # data[1].close /\ data[2].close # data[1].close

\* C6: with the default transactionCost 0.1 and initialCapital 10000 and a
\* HOLD signal at bar 0, the first equity-curve point has drawdown 0.
C6_FirstDrawdownZero ==
  (/\ pc \in {"loop", "done"}
   /\ cfg.transactionCost = [n |-> 1, d |-> 10] /\ cfg.initialCapital = 10000
   /\ Len(equityCurve) >= 1
   /\ signals[1] = "HOLD")
  => DrawdownIsZero(equityCurve[1].drawdown)

Metrics ==
  {"totalReturn", "buyAndHoldReturn", "excessReturn", "annualizedReturn",
   "annualizedBuyAndHold", "maxDrawdown", "maxDrawdownBuyAndHold", "volatility",
   "sharpeRatio", "sortinoRatio", "calmarRatio", "totalTrades", "winningTrades",
   "losingTrades", "winRate", "avgWin", "avgLoss", "profitFactor", "avgHoldingPeriod",
   "maxConsecutiveWins", "maxConsecutiveLosses"}

Rejected == Len(data) < 2 \/ ~ Registered(MergeConfig(DEFAULT_CONFIG, config).strategyId)

\* C7: with fewer than 2 bars or an unregistered strategyId runBacktest
\* returns, without calling calculate, a result whose metrics are all 0,
\* whose equityCurve, trades and signals are empty, whose dates are empty and
\* whose tradingDays is 0.
C7_EmptyResult ==
  /\ (pc = "start" /\ Rejected) => (ENABLED BTReject /\ ~ ENABLED BTStart)
  /\ (pc = "done" /\ Rejected) =>
        /\ calcCalls = 0
        /\ Metrics \subseteq DOMAIN result
        /\ \A m \in Metrics : result[m] = 0
        /\ result.equityCurve = << >> /\ result.trades = << >> /\ result.signals = << >>
        /\ result.startDate = "" /\ result.endDate = ""
        /\ result.tradingDays = 0
        /\ result.strategyId = cfg.strategyId

C7_Witness ==
  /\ pc = "done" /\ Len(data) = 1 /\ Registered(cfg.strategyId)
  /\ result.tradingDays = 0 /\ calcCalls = 0

\* --------------------------------------------------- optimizer properties
Aggregates ==
  {"avgTestReturn", "avgTestSharpe", "avgTestDrawdown", "avgTrainMetric",
   "avgTestMetric", "consistencyScore", "avgBuyHoldReturn", "winRateVsBuyHold"}

\* C8: runWalkForwardOptimization returns null, having run no backtest,
\* exactly when fewer than 200 bars are supplied or the strategy is unknown;
\* with >= 200 bars, a registered strategy, numWindows in 3..10 and
\* 0 < trainRatio < 1 the result has at least one WindowResult, so no
\* aggregate is a division by a zero window count.
C8_NullExactlyWhenInsufficient ==
  wfPc = "done" =>
    /\ (wfResult = Null) <=> (wfBars < 200 \/ ~ Registered(wfConfig.strategyId))
    /\ wfResult = Null => backtestRuns = 0
    /\ (/\ wfBars >= 200 /\ Registered(wfConfig.strategyId)
        /\ wfConfig.numWindows \in 3..10
        /\ 0 < wfConfig.trainRatio.n /\ wfConfig.trainRatio.n < wfConfig.trainRatio.d) =>
          /\ wfResult # Null
          /\ Len(wfResult.windowResults) >= 1
          /\ \A a \in Aggregates : wfResult[a] # "NaN"
          /\ backtestRuns > 0

C8_Witness ==
  /\ wfPc = "done" /\ wfBars = 200 /\ wfConfig.numWindows = 10
  /\ wfConfig.trainRatio = [n |-> 999, d |-> 1000]
  /\ wfResult # Null
  /\ Len(wfResult.windowResults) = 9

WindowsBuilt == wfPc \in {"windows", "done"} /\ wfResult # Null

\* C9: for >= 200 bars, numWindows in 3..10 and trainRatio 0.6, 0.7 or 0.8
\* (250 bars, 5 windows, 0.7 among them) every window's test range starts
\* where its train range ends, no range index exceeds the bar count, and the
\* first train range together with all test ranges covers every bar index.
C9_WindowsTileTheBars ==
  (/\ WindowsBuilt /\ wfBars >= 200 /\ wfConfig.numWindows \in 3..10
   /\ wfConfig.trainRatio \in { [n |-> 3, d |-> 5], [n |-> 7, d |-> 10], [n |-> 4, d |-> 5] }) =>
    /\ windows # << >>
    /\ \A j \in 1..Len(windows) :
          /\ windows[j].testStart = windows[j].trainEnd
          /\ windows[j].trainStart >= 0 /\ windows[j].trainStart <= windows[j].trainEnd
          /\ windows[j].trainEnd <= wfBars
          /\ windows[j].testStart <= windows[j].testEnd
          /\ windows[j].testEnd <= wfBars
    /\ \A b \in 0..(wfBars - 1) :
          \/ windows[1].trainStart <= b /\ b < windows[1].trainEnd
          \/ \E j \in 1..Len(windows) : windows[j].testStart <= b /\ b < windows[j].testEnd

C9_Witness ==
  /\ wfPc = "windows" /\ wfBars = 250 /\ wfConfig.numWindows = 5
  /\ wfConfig.trainRatio = [n |-> 7, d |-> 10]
  /\ Len(windows) = 4
  /\ windows[1].trainEnd = 110 /\ windows[4].testEnd = 250

\* the k-th smallest element of a finite set of numbers
RECURSIVE Nth(_, _)
Nth(S, k) ==
  LET m == CHOOSE x \in S : \A y \in S : x <= y
  IN  IF k = 1 THEN m ELSE Nth(S \ {m}, k - 1)

RECURSIVE ReturnsOf(_)
ReturnsOf(S) ==
  IF S = {} THEN RatZero
  ELSE LET k == CHOOSE k \in S : TRUE
       IN  RatAdd(result.trades[k].returnPct, ReturnsOf(S \ {k}))

\* C15: in a non-empty result profitFactor is never NaN; it is Infinity when
\* no trade is losing, and exactly when the losing returns sum to 0 while the
\* winning returns sum to more than 0; it is 0 when both sums are 0; otherwise
\* it is the winning sum over the magnitude of the losing sum.  Winning and
\* losing trades add up to all trades, a zero return counting as losing.
C15_ProfitFactor ==
  Ran =>
    LET ts == result.trades
        wins == { k \in 1..Len(ts) : ts[k].returnPct.n * ts[k].returnPct.d > 0 }
        losses == { k \in 1..Len(ts) : ts[k].returnPct.n * ts[k].returnPct.d <= 0 }
        sumWins == ReturnsOf(wins)
        sumLosses == ReturnsOf(losses)
        pf == result.profitFactor
    IN  /\ pf # ZeroOverZero
        /\ losses = {} => pf = Infinity
        /\ pf = Infinity <=> (sumLosses.n = 0 /\ sumWins.n > 0)
        /\ (sumLosses.n = 0 /\ sumWins.n = 0) => pf = RatZero
        /\ sumLosses.n # 0 =>
             /\ pf.d > 0
             /\ pf.n * Abs(sumLosses.n) * sumWins.d = sumWins.n * pf.d * sumLosses.d
        /\ result.winningTrades + result.losingTrades = result.totalTrades
        /\ result.winningTrades = Cardinality(wins)
        /\ result.losingTrades = Cardinality(losses)

C15_Witness ==
  /\ Ran
  /\ result.totalTrades >= 2
  /\ result.losingTrades = 0
  /\ result.profitFactor = Infinity

\* ------------------------------------------------ grid search properties
\* C11: in every window bestParams is a combination of the grid whose
\* training metric (profitFactor Infinity taken as 100) no other combination
\* exceeds, the first such combination in enumeration order; trainMetric is
\* that metric; the test backtest is run with that combination.
C11_BestOfGrid ==
  \A w \in 1..Len(windowResults) :
    \E j \in 1..Len(combinations) :
      /\ windowResults[w].bestParams = combinations[j]
      /\ \A k \in 1..Len(combinations) :
           ~ Gt(calls[w].trainMetrics[k], calls[w].trainMetrics[j])
      /\ \A k \in 1..(j - 1) : calls[w].trainMetrics[k] # calls[w].trainMetrics[j]
      /\ windowResults[w].trainMetric = calls[w].trainMetrics[j]
      /\ calls[w].testParams = combinations[j]

\* C12: every training backtest starts from config.initialCapital, the test
\* backtest of the first window too, and the test backtest of every later
\* window starts from the last equity-curve value of the previous window's
\* test backtest.
C12_CapitalCarriedAcrossWindows ==
  \A w \in 1..Len(calls) :
    /\ calls[w].trainCapital = wfConfig.initialCapital
    /\ w = 1 => calls[w].testCapital = wfConfig.initialCapital
    /\ w > 1 => /\ calls[w - 1].testResult.curveLength > 0
                /\ calls[w].testCapital = calls[w - 1].testResult.lastEquity

C12_Witness ==
  /\ Len(calls) >= 2
  /\ calls[2].testCapital # wfConfig.initialCapital
  /\ calls[2].testCapital = calls[1].testResult.lastEquity
  /\ calls[2].trainCapital = wfConfig.initialCapital

\* the number of windows whose bestParams give parameter id the value v
TimesSelected(id, v) ==
  Cardinality({ w \in 1..Len(windowResults) : windowResults[w].bestParams[id] = v })

\* the earliest window whose bestParams give parameter id the value v
FirstSelected(id, v) ==
  CHOOSE w \in 1..Len(windowResults) :
    /\ windowResults[w].bestParams[id] = v
    /\ \A u \in 1..(w - 1) : windowResults[u].bestParams[id] # v

\* C13: for every parameter the recommended value was selected in the largest
\* number of windows, and among the values selected equally often it is the
\* one that the earliest window selected.
C13_MostSelectedFirstSeen ==
  wfResult.returned = "result" =>
    \A id \in DOMAIN wfResult.recommendedParams :
      LET v == wfResult.recommendedParams[id]
      IN  /\ \E w \in 1..Len(windowResults) : windowResults[w].bestParams[id] = v
          /\ \A w \in 1..Len(windowResults) :
               LET u == windowResults[w].bestParams[id]
               IN  /\ TimesSelected(id, u) <= TimesSelected(id, v)
                   /\ TimesSelected(id, u) = TimesSelected(id, v)
                        => FirstSelected(id, v) <= FirstSelected(id, u)

\* ---------------------------------------------------- ranking properties
\* the position of a strategy id in the registry
RegistryIndex(id) == CHOOSE j \in 1..Len(strategies) : strategies[j].id = id

\* the requested ids for which a result was returned
Succeeded == { id \in RankedIds : \E k \in 1..Len(results) : results[k].strategyId = id }

\* C14: the ranking holds each requested strategy that returned a result
\* exactly once, in order of non-increasing score, strategies of equal score
\* in registry order; bestStrategy is the result of the first entry and null
\* exactly when there are no results.
C14_RankingOrder ==
  msPc = "done" =>
    /\ { ranking[k].strategyId : k \in 1..Len(ranking) } = Succeeded
    /\ \A id \in Succeeded : \E k \in 1..Len(strategyIds) : strategyIds[k] = id
    /\ \A j, k \in 1..Len(ranking) : j # k => ranking[j].strategyId # ranking[k].strategyId
    /\ \A k \in 1..Len(ranking) :
         \E m \in 1..Len(results) :
           /\ results[m].strategyId = ranking[k].strategyId
           /\ ranking[k].score = Score(results[m])
    /\ \A j, k \in 1..Len(ranking) :
         j < k =>
           /\ CompareScores(ranking[j], ranking[k]) <= 0
           /\ CompareScores(ranking[j], ranking[k]) = 0
                => RegistryIndex(ranking[j].strategyId) < RegistryIndex(ranking[k].strategyId)
    /\ (bestStrategy = Null) <=> (Len(results) = 0)
    /\ Len(results) > 0 => bestStrategy.strategyId = ranking[1].strategyId

\* ------------------------------------------------------- zone properties
\* the threshold that the classification of the bar was given
GivenThreshold ==
  IF "threshold" \in DOMAIN hamiltonParams THEN hamiltonParams["threshold"]
  ELSE DEFAULT_THRESHOLD

\* the class of a force value: 1 strong, 2 neutral, 3 weak; 0 if in none or
\* in more than one
ClassOf(x, t) ==
  LET in == << x > t, x >= -t /\ x <= t, x < -t >>
      holding == { c \in 1..3 : in[c] }
  IN  IF Cardinality(holding) = 1 THEN CHOOSE c \in holding : TRUE ELSE 0

\* C16: for demand and supply in [-100, 100] and a positive threshold, each
\* force is in exactly one of the classes strong, neutral, weak, so exactly
\* one of the nine zone rules holds; the position returned is the one of that
\* rule and the default return is not taken.
C16_ExactlyOneZoneRule ==
  (zonePc # "classify" /\ GivenThreshold > 0) =>
    LET d == ClassOf(barDemand, GivenThreshold)
        s == ClassOf(barSupply, GivenThreshold)
        zones == << << "BEAR_RALLY", "WEAK_BULL", "FREE_RISE" >>,
                    << "DISTRIBUTION", "CHAOS", "CONSOLIDATION" >>,
                    << "FREE_FALL", "WEAK_BEAR", "BULL_TRAP" >> >>
    IN  /\ d # 0 /\ s # 0
        /\ zoneRule \in 1..9
        /\ tradingSignal.position = zones[d][s]
        /\ tradingSignal.position = Returned[zoneRule]
        /\ \A r \in 1..9 : Returned[r] = tradingSignal.position => r = zoneRule

C16_Witness ==
  /\ zonePc # "classify"
  /\ barDemand = GivenThreshold
  /\ barSupply = -GivenThreshold
  /\ GivenThreshold = 1000
  /\ tradingSignal.position = "CHAOS"
  /\ zoneRule = 5

\* the declared values of the Hamilton threshold
DeclaredThresholds ==
  LET p == getStrategyById("hamilton").parameters[1]
  IN  { v \in p.min..p.max : (v - p.min) % p.step = 0 }

\* C17: for a threshold of the declared range passed in params, the signal
\* of the Hamilton strategy is BUY iff the action of createTradingSignal on
\* the bar with that threshold is LONG or ACCUMULATE, SELL iff it is SHORT,
\* EXIT_LONG or REDUCE, and HOLD for WAIT, HOLD_LONG, HOLD_SHORT, EXIT_SHORT.
C17_HamiltonFollowsTradingSignal ==
  (zonePc = "done" /\ "threshold" \in DOMAIN hamiltonParams
     /\ hamiltonParams["threshold"] \in DeclaredThresholds) =>
    LET t == hamiltonParams["threshold"]
        action == tradingSignal.action
        signal == hamiltonSignals[1]
    IN  /\ Len(hamiltonSignals) = 1
        /\ signal \in Signals
        /\ signal = "BUY" <=> action \in {"LONG", "ACCUMULATE"}
        /\ signal = "SELL" <=> action \in {"SHORT", "EXIT_LONG", "REDUCE"}
        /\ action \in {"WAIT", "HOLD_LONG", "HOLD_SHORT", "EXIT_SHORT"} => signal = "HOLD"
        /\ signal = "BUY" <=> (barSupply < -t /\ barDemand >= -t)
        /\ signal = "SELL" <=> \/ (barDemand < -t /\ (barSupply > t \/ barSupply < -t))
                               \/ (barDemand >= -t /\ barDemand <= t /\ barSupply > t)

C17_Witness ==
  /\ zonePc = "done"
  /\ hamiltonParams = ("threshold" :> 1500)
  /\ barDemand = 1500
  /\ barSupply = -1501
  /\ tradingSignal.action = "ACCUMULATE"
  /\ hamiltonSignals = << "BUY" >>

\* --------------------------------------------- force calculator properties
\* the period guarding the second pass of the method (lines 42, 134, 222, 281)
PeriodOf(method) ==
  CASE method = "A" -> MethodA_period
    [] method = "B" -> lookback
    [] method = "C" -> rsiPeriod
    [] method = "D" -> MethodD_period

\* demand and supply as handed to clamp for the bar at index
ForcesBeforeClamp(bars, method, index) ==
  CASE method = "A" -> MethodAForces(bars, index)
    [] method = "B" -> MethodBForces(bars, index)
    [] method = "C" -> MethodCForces(bars, index)
    [] method = "D" -> MethodDForces(bars, index)

\* a finite number between -100 and 100
Within100(x) == x.d > 0 /\ -100 * x.d <= x.n /\ x.n <= 100 * x.d

NotFinite(x) == x.d = 0

\* C18: whatever the bars and whichever of the methods A, B, C, D, every
\* demand and every supply calculateForces returns is a finite number in
\* [-100, 100], and where the value computed for a bar is NaN or infinite
\* the bar's returned value is 0.
C18_ForcesBounded ==
  fcPc = "done" =>
    \A k \in 1..Len(fcResult) :
      /\ Within100(fcResult[k].demand)
      /\ Within100(fcResult[k].supply)
      /\ k - 1 >= PeriodOf(fcMethod) =>
           LET f == ForcesBeforeClamp(fcData, fcMethod, k - 1)
           IN  /\ NotFinite(f.demand) => fcResult[k].demand = F(0)
               /\ NotFinite(f.supply) => fcResult[k].supply = F(0)

\* Method D on bars the last of which closes at Infinity: the demand computed
\* for that bar is infinite and 0 is returned, the bar before has a demand
\* that is not 0
C18_Witness ==
  /\ fcPc = "done"
  /\ fcMethod = "D"
  /\ Len(fcData) > MethodD_period + 1
  /\ LET n == Len(fcData)
     IN  /\ ForcesBeforeClamp(fcData, "D", n - 1).demand \in {Infinity, NegInfinity}
         /\ fcResult[n].demand = F(0)
         /\ fcResult[n - 1].demand # F(0)

\* the warm-up lengths of the four methods
WarmUpLength(method) ==
  CASE method = "A" -> 14
    [] method = "B" -> 20
    [] method = "C" -> 14
    [] method = "D" -> 21

\* C19: calculateForces returns one sample per input bar, in input order,
\* with date, open, high, low, close and volume as given, and with demand
\* and supply 0 at every index below the method's warm-up length (14 for A,
\* 20 for B, 14 for C, 21 for D).
C19_OneSamplePerBar ==
  fcPc = "done" =>
    /\ Len(fcResult) = Len(fcData)
    /\ \A k \in 1..Len(fcData) :
         /\ fcResult[k].date = fcData[k].date
         /\ fcResult[k].open = fcData[k].open
         /\ fcResult[k].high = fcData[k].high
         /\ fcResult[k].low = fcData[k].low
         /\ fcResult[k].close = fcData[k].close
         /\ fcResult[k].volume = fcData[k].volume
         /\ k - 1 < WarmUpLength(fcMethod) =>
              fcResult[k].demand = F(0) /\ fcResult[k].supply = F(0)

\* Method B on more than 20 bars: index 19 has no force, index 20 has one
C19_Witness ==
  /\ fcPc = "done"
  /\ fcMethod = "B"
  /\ Len(fcData) > 20
  /\ fcResult[20].demand = F(0) /\ fcResult[20].supply = F(0)
  /\ fcResult[21].demand # F(0)
  /\ fcResult[21].date = fcData[21].date

\* ------------------------------------------------- strategy properties
Larger(a, b) == IF a > b THEN a ELSE b

\* the warm-up length of a strategy: the number of leading bars it holds on
ClaimedWarmUp(reg, id, params) ==
  CASE id = "hamilton" -> 0
    [] id = "ma_crossover" -> Period(reg, id, params, "slowPeriod")
    [] id = "macd" ->
         Period(reg, id, params, "slowPeriod") + Period(reg, id, params, "signalPeriod")
    [] id = "adx_trend" -> 2 * Period(reg, id, params, "period")
    [] id = "dual_momentum" -> Period(reg, id, params, "lookback")
    [] id = "tsmom" -> Period(reg, id, params, "lookback")
    [] id = "donchian_breakout" -> Period(reg, id, params, "entryPeriod")
    [] id = "breakout" -> Period(reg, id, params, "period")
    [] id = "volume_breakout" ->
         Larger(Period(reg, id, params, "breakoutPeriod"),
                Period(reg, id, params, "volumePeriod"))
    [] id = "volatility_breakout" -> Period(reg, id, params, "atrPeriod")
    [] id = "keltner_breakout" ->
         Larger(Period(reg, id, params, "emaPeriod"),
                Period(reg, id, params, "atrPeriod")) - 1
    [] id = "supertrend" -> Period(reg, id, params, "period") + 1
    [] id = "trend_strength" -> Period(reg, id, params, "trendPeriod")
    [] id = "rsi_reversion" -> Period(reg, id, params, "period")
    [] id = "bollinger" -> Period(reg, id, params, "period")
    [] id = "triple_ma" -> Period(reg, id, params, "longPeriod")
    [] id = "rsi_macd_combo" -> 35
    [] id = "mean_reversion_vol" -> 70

\* C20: for every registered strategy and every parameter assignment inside
\* its declared ranges, calculate returns one signal per input bar, every
\* signal is BUY, SELL or HOLD, and every signal at an index below the
\* strategy's warm-up length is HOLD.
C20_OneSignalPerBar ==
  stPc = "done" =>
    /\ Len(stSignals) = stLen
    /\ \A k \in 1..Len(stSignals) : stSignals[k] \in Signals
    /\ \A k \in 1..Len(stSignals) :
         k - 1 < ClaimedWarmUp(stRegistry, stId, stParams) => stSignals[k] = "HOLD"

\* calculate returned for a series longer than the warm-up of a strategy that
\* has one, and the first signal after the warm-up is not HOLD
C20_Witness ==
  /\ stPc = "done"
  /\ ClaimedWarmUp(stRegistry, stId, stParams) > 0
  /\ stLen > ClaimedWarmUp(stRegistry, stId, stParams)
  /\ stSignals[ClaimedWarmUp(stRegistry, stId, stParams) + 1] # "HOLD"

\* ------------------------------------------------- parameter grid properties
\* |V(p)| for V(p) = {min, min + step, min + 2 * step, ...} up to max
ValueCount(r) == IF r.min > r.max THEN 0 ELSE (r.max - r.min) \div r.step + 1

RECURSIVE CombinationCountFrom(_, _, _)
CombinationCountFrom(params, customRanges, index) ==
  IF index > Len(params) THEN 1
  ELSE ValueCount(RangeOf(params[index], customRanges))
       * CombinationCountFrom(params, customRanges, index + 1)

\* |V(p1)| * ... * |V(pk)|
CombinationCount(strategy, customRanges) ==
  CombinationCountFrom(strategy.parameters, customRanges, 1)

\* value is one of min, min + step, min + 2 * step, ... and not above max
InRange(value, r) ==
  /\ r.min <= value
  /\ value <= r.max
  /\ (value - r.min) % r.step = 0

\* C21: generateParameterCombinations returns every assignment of the
\* cartesian product exactly once: the list has |V(p1)| * ... * |V(pk)|
\* entries, no two entries are equal, each entry assigns every parameter a
\* value of its V(p) (so none outside [min, max]), and a strategy without
\* parameters yields exactly one empty assignment.
C21_CartesianProduct ==
  gpPc = "done" =>
    /\ Len(gpResult) = CombinationCount(gpStrategy, gpCustom)
    /\ Cardinality({ gpResult[k] : k \in 1..Len(gpResult) }) = Len(gpResult)
    /\ \A k \in 1..Len(gpResult) :
         /\ DOMAIN gpResult[k] =
              { gpStrategy.parameters[j].id : j \in 1..Len(gpStrategy.parameters) }
         /\ \A j \in 1..Len(gpStrategy.parameters) :
              InRange(gpResult[k][gpStrategy.parameters[j].id],
                      RangeOf(gpStrategy.parameters[j], gpCustom))
    /\ Len(gpStrategy.parameters) = 0 => gpResult = << NoParams >>

AllDone == \A t \in Slots : tasks[t].pc = "idle"

\* the data was downloaded less than its timeframe's validity period before at
FreshAt(bars, at) ==
  \A n \in 1..Len(bars) : at - bars[n].downloaded < getFreshnessDuration(bars[n].timeframe)

\* C23: data returned from the cache was downloaded from the API less than
\* the validity period of its timeframe ago
C23_CacheDataIsFresh == served # << >> => FreshAt(served[1].data, served[1].at)

\* C26: when the API fetch of a handleFetchData call fails and the call found
\* a stale entry for the requested symbol and timeframe, the call ends with
\* rawData set to the entry's data, isUsingCache true and the error ending in
\* 'Using cached data instead.'; a failed call empties rawData only when
\* there was no entry at all
C26_StaleCacheUsedOnFailure ==
  call.finished /\ call.failed =>
     /\ call.stale => /\ call.rawData = call.found.data
                      /\ call.isUsingCache
                      /\ call.error = "failed. Using cached data instead."
     /\ call.rawData = << >> => ~ call.found.stored

\* C30: once every pending operation has finished, the displayed rawData
\* belongs to the symbol and timeframe of the latest request, and loading is
\* false whenever no handleFetchData call is in progress
C30_LatestRequestDisplayed ==
  /\ AllDone /\ lastRequest # << >> =>
       \A n \in 1..Len(rawData) : /\ rawData[n].symbol = lastRequest[1].symbol
                                  /\ rawData[n].timeframe = lastRequest[1].timeframe
  /\ tasks[0].pc = "idle" => ~ loading

\* ------------------------------------------------------ calculateRSI properties
\* avg[i] = (avg[i-1] * (period - 1) + change[i]) / period
WilderStep(avg, change, period) ==
  FDiv(FAdd(FMul(avg, F(period - 1)), change), F(period))

\* C24: calculateRSI returns 50 below index period; at index period its
\* averages are the means of the first period changes; at every later index
\* they follow Wilder's recurrence; the RSI is 100 - 100/(1 + avgGain/avgLoss)
C24_WilderSmoothing ==
  riPc = "done" =>
    \A j \in 0..Len(riData) - 1 :
      /\ j < riPeriod => riResult.result[j] = F(50)
      /\ j = riPeriod =>
           /\ riResult.avgGain[j] = FDiv(SumRange(rsiGains(riData), F(0), 1, riPeriod), F(riPeriod))
           /\ riResult.avgLoss[j] = FDiv(SumRange(rsiLosses(riData), F(0), 1, riPeriod), F(riPeriod))
      /\ j > riPeriod =>
           /\ riResult.avgGain[j] = WilderStep(riResult.avgGain[j - 1], rsiGains(riData)[j], riPeriod)
           /\ riResult.avgLoss[j] = WilderStep(riResult.avgLoss[j - 1], rsiLosses(riData)[j], riPeriod)
      /\ j >= riPeriod /\ ~ FEq(riResult.avgLoss[j], F(0)) =>
           riResult.result[j] =
             FSub(F(100), FDiv(F(100), FAdd(F(1), FDiv(riResult.avgGain[j], riResult.avgLoss[j]))))

\* ----------------------------------------------- calculateSupertrend properties
\* the basic bands of bar j of the call
BandsOf(j) == basicBands(suData[j + 1], suMultiplier, calculateATR(suData, suPeriod)[j])

\* C25: the direction is 0 below index period and 1 or -1 from there on; at
\* the seed bar it is 1 iff close exceeds the basic upper band; it turns from
\* -1 to 1 only at a close above the ratcheted upper band and from 1 to -1
\* only at a close below the ratcheted lower band; while it stays 1 the
\* supertrend never decreases, while it stays -1 it never increases; the
\* strategy emits BUY exactly on a -1 to 1 change and SELL exactly on a 1 to
\* -1 change
C25_SupertrendDirection ==
  suPc = "done" =>
    LET dir == suResult.indicators.direction
        st == suResult.indicators.supertrend
    IN  \A j \in 0..Len(suData) - 1 :
          /\ j < suPeriod => dir[j] = 0
          /\ j >= suPeriod => dir[j] \in {1, -1}
          /\ j = suPeriod => (dir[j] = 1 <=> FGt(suData[j + 1].close, BandsOf(j).upper))
          /\ j > suPeriod /\ dir[j - 1] = -1 /\ dir[j] = 1 =>
               FGt(suData[j + 1].close, MathMin(BandsOf(j).upper, st[j - 1]))
          /\ j > suPeriod /\ dir[j - 1] = 1 /\ dir[j] = -1 =>
               FLt(suData[j + 1].close, MathMax(BandsOf(j).lower, st[j - 1]))
          /\ j > suPeriod /\ dir[j - 1] = 1 /\ dir[j] = 1 => FGe(st[j], st[j - 1])
          /\ j > suPeriod /\ dir[j - 1] = -1 /\ dir[j] = -1 => FGe(st[j - 1], st[j])
          /\ suResult.signals[j] = "BUY" <=> (j > 0 /\ dir[j - 1] = -1 /\ dir[j] = 1)
          /\ suResult.signals[j] = "SELL" <=> (j > 0 /\ dir[j - 1] = 1 /\ dir[j] = -1)

\* a run with both changes and a stretch of direction 1 over which the
\* supertrend rises
C25_Witness ==
  /\ suPc = "done"
  /\ \E j \in 0..Len(suData) - 1 : suResult.signals[j] = "BUY"
  /\ \E j \in 0..Len(suData) - 1 : suResult.signals[j] = "SELL"
  /\ \E j \in 1..Len(suData) - 1 :
       /\ suResult.indicators.direction[j] = 1
       /\ suResult.indicators.direction[j - 1] = 1
       /\ FGt(suResult.indicators.supertrend[j], suResult.indicators.supertrend[j - 1])

\* ------------------------------------------------- position and trade sequence
\* the run is in its bar loop or has ended after it
Trading == pc = "loop" \/ Ran

\* the index of the bar with the given date
IndexOf(date) == date - BaseDate

\* C27: without shorts the position is never SHORT and every trade is LONG;
\* with shorts the position is never FLAT, trade types alternate LONG, SHORT,
\* ... starting with LONG and each trade is entered at the date and price at
\* which the previous one was exited; in both cases holdingPeriod = exit index
\* - entry index >= 0 and the trades are in chronological order without
\* overlap
C27_PositionsByAllowShorts ==
  Trading =>
    /\ ~ cfg.allowShorts =>
         /\ position # "SHORT"
         /\ \A k \in 1..Len(trades) : trades[k].type = "LONG"
    /\ cfg.allowShorts =>
         /\ position # "FLAT"
         /\ \A k \in 1..Len(trades) :
              trades[k].type = IF k % 2 = 1 THEN "LONG" ELSE "SHORT"
         /\ \A k \in 2..Len(trades) :
              /\ trades[k].entryDate = trades[k - 1].exitDate
              /\ trades[k].entryPrice = trades[k - 1].exitPrice
    /\ \A k \in 1..Len(trades) :
         /\ trades[k].holdingPeriod = IndexOf(trades[k].exitDate) - IndexOf(trades[k].entryDate)
         /\ trades[k].holdingPeriod >= 0
    /\ \A k \in 2..Len(trades) : trades[k - 1].exitDate <= trades[k].entryDate

\* a run with shorts whose SHORT trade spans two bars
C27_Witness ==
  /\ Ran /\ cfg.allowShorts
  /\ Len(trades) = 3
  /\ trades[2].type = "SHORT" /\ trades[2].holdingPeriod = 2
  /\ trades[3].holdingPeriod = 0

\* ------------------------------------------------------ test ranges of windows
\* lines 400-405: the bar indices whose equity points window result j adds to
\* combinedEquityCurve (one point per bar of the test backtest, in bar order)
CurveBars(j) ==
  { windowResults[j].testStart + k : k \in 0..(calls[j].testResult.curveLength - 1) }

\* C28: for >= 200 bars, numWindows in 3..10 and trainRatio 0.6, 0.7 or 0.8
\* the test ranges of distinct windows are disjoint and ordered, and the
\* dates of combinedEquityCurve are strictly ascending, so that no bar
\* contributes to two windows
C28_TestRangesDisjoint ==
  (/\ WindowsBuilt /\ wfBars >= 200 /\ wfConfig.numWindows \in 3..10
   /\ wfConfig.trainRatio \in { [n |-> 3, d |-> 5], [n |-> 7, d |-> 10], [n |-> 4, d |-> 5] }) =>
    /\ \A a \in 1..Len(windows) : \A b \in (a + 1)..Len(windows) :
          windows[a].testEnd <= windows[b].testStart
    /\ \A a \in 1..Len(windowResults) : \A b \in (a + 1)..Len(windowResults) :
          \A x \in CurveBars(a), y \in CurveBars(b) : x < y

\* ---------------------------------------------------- inPosition strategies
NonHold(signal) == signal # "HOLD"

\* C29: the non-HOLD signals of a strategy that keeps an inPosition flag
\* alternate BUY, SELL, BUY, ... and the first of them is BUY
C29_BuySellAlternate ==
  stId \in InPositionIds =>
    LET acted == SelectSeq(stSignals, NonHold)
    IN  \A k \in 1..Len(acted) : acted[k] = IF k % 2 = 1 THEN "BUY" ELSE "SELL"

\* a finished run with two entries and two exits
C29_Witness ==
  /\ stPc = "done"
  /\ stId = "volatility_breakout"
  /\ SelectSeq(stSignals, NonHold) = << "BUY", "SELL", "BUY", "SELL" >>

====
